---------------------------- MODULE Spec2Model ----------------------------
(***************************************************************************)
(* CRUDZASO v2: a browser-only task manager.  Every page is a standalone   *)
(* script that loads state from localStorage, keeps one mutable page-state *)
(* object, reacts to DOM events and writes the whole task collection back. *)
(*                                                                         *)
(* The model has one localStorage (shared by all tabs of the origin), a    *)
(* wall clock, and two browser tabs.  A tab is on one page at a time; a    *)
(* navigation discards the page's JavaScript state and the next step runs  *)
(* the new page's DOMContentLoaded handler.  A handler that runs without   *)
(* yielding to the event loop is one action.                               *)
(*                                                                         *)
(* Time is counted in minutes.                                             *)
(***************************************************************************)
EXTENDS Integers, Sequences, FiniteSets, TLC

\* ------------------------------------------------------------------------
\* Bounds of the model
\* ------------------------------------------------------------------------
MaxTicks == 1          \* number of clock advances explored
MaxTasks == 3          \* creations stop when the stored collection has this many
MaxSampleTasks == 2    \* how many of the demonstration tasks a seeding creates
MaxRandom == 2         \* distinct outcomes of Math.random() in generateTaskId
MaxUsers == 3          \* registrations saved in the registration scenario
MaxSortTasks == 4      \* stored tasks in the sorting scenario
MaxDraftWrites == 2    \* auto-save runs are followed until a page wrote this many drafts

\* ------------------------------------------------------------------------
\* Values
\* ------------------------------------------------------------------------
NoValue == "undefined"          \* JS undefined / null, an absent key or property

Tabs == {"A", "B"}

Pages == {"index", "dashboard", "tasks", "create-task", "profile"}

RECURSIVE SelectIdx(_, _, _)
\* Array.prototype.filter over the indexes of s: the sequence of the i with keep[i].
SelectIdx(s, keep, i) ==
    IF i > Len(s) THEN <<>>
    ELSE (IF keep[i] THEN <<s[i]>> ELSE <<>>) \o SelectIdx(s, keep, i + 1)

Filter(s, Test(_)) == SelectIdx(s, [i \in 1..Len(s) |-> Test(s[i])], 1)

\* Array.prototype.findIndex, 0 when no element passes (-1 in JS).
FindIndex(s, Test(_)) ==
    IF \E i \in 1..Len(s) : Test(s[i])
    THEN CHOOSE i \in 1..Len(s) : Test(s[i]) /\ \A j \in 1..(i - 1) : ~Test(s[j])
    ELSE 0

\* ------------------------------------------------------------------------
\* Program constants
\* ------------------------------------------------------------------------
STATISTICS_CACHE_DURATION == 5      \* 5 * 60 * 1000 ms
SESSION_DURATION == 1440            \* 24 * 60 * 60 * 1000 ms
PASSWORD_MIN_LENGTH == 6
MIN_TITLE_LENGTH == 3
MAX_TITLE_LENGTH == 100
REGISTER_PASSWORD_MIN_LENGTH == 8   \* REGISTER_CONFIG.PASSWORD_MIN_LENGTH
NAME_MIN_LENGTH == 2
NAME_MAX_LENGTH == 50
TASKS_DISPLAY_LIMIT == 5

\* (user ids are written as strings: the ids of registered users are strings)
DEMO_USERS == <<
    [id |-> "1", email |-> "student@university.edu", password |-> "password123"],
    [id |-> "2", email |-> "sarah@crudzaso.edu",     password |-> "admin123"],
    [id |-> "3", email |-> "john@university.edu",    password |-> "student456"] >>

InvalidCredentials ==
    "Invalid email or password. Please check your credentials and try again."

\* The clock moves by a minute, by the statistics cache duration or by a
\* minute more than the life of a session.
ClockSteps == {1, STATISTICS_CACHE_DURATION, SESSION_DURATION + 1}


\* ------------------------------------------------------------------------
\* State
\* ------------------------------------------------------------------------
VARIABLES
    now,              \* the wall clock, Date.now() / new Date()
    ticks,            \* how many times the clock has advanced
    lsSession,        \* localStorage 'crudzaso_user_session'
    lsTasks,          \* localStorage 'crudzaso_tasks' (<<>>: '[]' or key absent)
    lsEditingTaskId,  \* localStorage 'editing_task_id'
    page,             \* per tab: the document the tab shows
    phase,            \* per tab: "closed", "loading" (handler not yet run), "ready"
    urlEdit,          \* per tab: the ?edit= parameter of the location
    currentUser,      \* per tab: `currentUser` of tasks.js / create-task.js / profile
    heap,             \* per tab: the task objects JSON.parse created, by reference
    dashboardState,   \* per tab: dashboard.js `dashboardState`
    tasksState,       \* per tab: tasks.js `tasksState`
    taskFormState,    \* per tab: create-task.js `taskFormState`
    shownStats,       \* per tab: the numbers in the statistics cards
    rendered,         \* per tab: ids of the task rows in the DOM (their buttons)
    rows,             \* per tab: the ids of the task rows in the DOM, top to bottom
    timer,            \* per tab: the pending setTimeout callback, if any
    message,          \* per tab: the last message shown to the user
    console,          \* per tab: the last console line of the last handler
    loginEmail,       \* per tab: the value of the #login-email input
    lsUsers,          \* localStorage 'crudzaso_users' (<<>>: '[]' or key absent)
    registration,     \* per tab: where the pending handleRegisterSubmit stands
    lsDrafts,         \* localStorage: the draft stored under each draft key
    autoSaveTimer,    \* per tab: create-task.js `autoSaveTimer` is a running interval
    draftLog          \* per tab: what has happened to the page's draft since its load

vars == << now, ticks, lsSession, lsTasks, lsEditingTaskId, page, phase, urlEdit,
           currentUser, heap, dashboardState, tasksState, taskFormState,
           shownStats, rendered, rows, timer, message, console, loginEmail,
           lsUsers, registration, lsDrafts, autoSaveTimer, draftLog >>

regVars == << lsUsers, registration >>
storeVars == << lsSession, lsTasks, lsEditingTaskId >>
locVars == << page, phase, urlEdit >>
scriptVars == << currentUser, heap, dashboardState, tasksState, taskFormState,
                autoSaveTimer, draftLog >>
domVars == << shownStats, rendered, rows, timer, message, console, loginEmail >>

Null == [null |-> TRUE]                 \* null where a JSON object is expected
CorruptSession == [corrupt |-> TRUE]    \* a session string that is not JSON

Has(obj, field) == field \in DOMAIN obj

dashboardState0 ==
    [currentUser |-> Null, tasks |-> <<>>, filteredTasks |-> <<>>,
     currentFilter |-> "all", statisticsCache |-> Null, lastUpdate |-> 0]

tasksState0 ==
    [allTasks |-> <<>>, filteredTasks |-> <<>>, currentPage |-> 1, tasksPerPage |-> 10,
     totalPages |-> 0,
     activeFilters |-> [search |-> "", category |-> "all", priority |-> "all",
                        status |-> "all"]]

EmptyObject == << >>                    \* {}

taskFormState0 ==
    [isEditing |-> FALSE, editingTaskId |-> NoValue, currentTask |-> EmptyObject,
     isDirty |-> FALSE, autoSaveEnabled |-> TRUE, lastSave |-> Null]

\* nothing has happened to the draft: writes counts the setItem calls on the
\* draft key, autoSaved tells that performAutoSave has written, inputSince
\* that the form had an input event after the last run of the auto-save timer
draftLog0 == [writes |-> 0, autoSaved |-> FALSE, inputSince |-> FALSE]

\* no handleRegisterSubmit is running
registration0 == [pc |-> "idle"]

Init ==
    /\ now = 0
    /\ ticks = 0
    /\ lsSession = Null
    /\ lsTasks = <<>>
    /\ lsEditingTaskId = NoValue
    /\ page = [t \in Tabs |-> "index"]
    /\ phase = [t \in Tabs |-> "closed"]
    /\ urlEdit = [t \in Tabs |-> NoValue]
    /\ currentUser = [t \in Tabs |-> Null]
    /\ heap = [t \in Tabs |-> <<>>]
    /\ dashboardState = [t \in Tabs |-> dashboardState0]
    /\ tasksState = [t \in Tabs |-> tasksState0]
    /\ taskFormState = [t \in Tabs |-> taskFormState0]
    /\ autoSaveTimer = [t \in Tabs |-> FALSE]
    /\ draftLog = [t \in Tabs |-> draftLog0]
    /\ shownStats = [t \in Tabs |-> Null]
    /\ rendered = [t \in Tabs |-> {}]
    /\ rows = [t \in Tabs |-> <<>>]
    /\ timer = [t \in Tabs |-> "none"]
    /\ message = [t \in Tabs |-> NoValue]
    /\ console = [t \in Tabs |-> NoValue]
    /\ loginEmail = [t \in Tabs |-> ""]
    /\ lsUsers = <<>>
    /\ lsDrafts = EmptyObject
    /\ registration = [t \in Tabs |-> registration0]

\* A page load starts from the scripts' initial values.
FreshPage(t) ==
    /\ currentUser' = [currentUser EXCEPT ![t] = Null]
    /\ heap' = [heap EXCEPT ![t] = <<>>]
    /\ dashboardState' = [dashboardState EXCEPT ![t] = dashboardState0]
    /\ tasksState' = [tasksState EXCEPT ![t] = tasksState0]
    /\ taskFormState' = [taskFormState EXCEPT ![t] = taskFormState0]
    /\ autoSaveTimer' = [autoSaveTimer EXCEPT ![t] = FALSE]
    /\ draftLog' = [draftLog EXCEPT ![t] = draftLog0]
    /\ shownStats' = [shownStats EXCEPT ![t] = Null]
    /\ rendered' = [rendered EXCEPT ![t] = {}]
    /\ rows' = [rows EXCEPT ![t] = <<>>]
    /\ timer' = [timer EXCEPT ![t] = "none"]
    /\ message' = [message EXCEPT ![t] = NoValue]
    /\ console' = [console EXCEPT ![t] = NoValue]
    /\ loginEmail' = [loginEmail EXCEPT ![t] = ""]

\* window.location.href = target (with an optional ?edit= parameter)
GoTo(t, target, edit) ==
    /\ page' = [page EXCEPT ![t] = target]
    /\ phase' = [phase EXCEPT ![t] = "loading"]
    /\ urlEdit' = [urlEdit EXCEPT ![t] = edit]
    /\ FreshPage(t)

\* The user opens one of the pages in a tab.
Navigate(t, target) ==
    /\ GoTo(t, target, NoValue)
    /\ UNCHANGED << now, ticks, regVars, lsDrafts, storeVars >>

AdvanceClock(d) ==
    /\ ticks < MaxTicks
    /\ now' = now + d
    /\ ticks' = ticks + 1
    /\ UNCHANGED << regVars, lsDrafts, storeVars, locVars, scriptVars, domVars >>


\* ------------------------------------------------------------------------
\* Sessions (login page of src/unnamed/part_000, dashboard.js, the other pages)
\* ------------------------------------------------------------------------

\* login page: the session that stays in the store and whether the page
\* redirects to the dashboard
checkExistingSession(session, clock) ==
    IF session = Null THEN [redirect |-> FALSE, session |-> session]
    ELSE IF Has(session, "corrupt") THEN [redirect |-> FALSE, session |-> Null]
    ELSE IF Has(session, "expires") /\ clock < session.expires
         THEN [redirect |-> TRUE, session |-> session]
         ELSE [redirect |-> FALSE, session |-> Null]

\* dashboard: the session that stays in the store and the gate's answer
verifyUserAuthentication(session, clock) ==
    IF session = Null THEN [ok |-> FALSE, session |-> session]
    ELSE IF Has(session, "corrupt") THEN [ok |-> FALSE, session |-> Null]
    ELSE IF Has(session, "expires") /\ clock > session.expires
         THEN [ok |-> FALSE, session |-> Null]
         ELSE [ok |-> TRUE, session |-> session]

\* tasks, create-task and profile pages
verifyAuthentication(session) == session # Null

createUserSession(user, clock) ==
    [userId |-> user.id, email |-> user.email, expires |-> clock + SESSION_DURATION]

\* loadCurrentUser of the pages: JSON.parse of the stored session; a string
\* that is not JSON throws.
loadCurrentUser(session) ==
    IF session = Null \/ Has(session, "corrupt") THEN [threw |-> TRUE, user |-> Null]
    ELSE [threw |-> FALSE, user |-> [id |-> session.userId]]

\* an authenticateUser that tells a wrong password from an unknown email
authenticateUser_Revealing(email, password) ==
    LET i == FindIndex(DEMO_USERS, LAMBDA u : u.email = email)
    IN  IF i = 0 THEN [success |-> FALSE, error |-> InvalidCredentials]
        ELSE IF DEMO_USERS[i].password # password
             THEN [success |-> FALSE, error |-> "Incorrect password. Please try again."]
             ELSE [success |-> TRUE, user |-> DEMO_USERS[i]]

authenticateUser(email, password) ==
    LET i == FindIndex(DEMO_USERS, LAMBDA u : u.email = email)
    IN  IF i = 0 THEN [success |-> FALSE, error |-> InvalidCredentials]
        ELSE IF DEMO_USERS[i].password # password
             THEN [success |-> FALSE, error |-> InvalidCredentials]
             ELSE [success |-> TRUE, user |-> DEMO_USERS[i]]

\* What the user types into the login form.
LoginEmails == {"student@university.edu", " Student@University.EDU ",
                "sarah@crudzaso.edu", "nobody@university.edu", "student"}
LoginPasswords == {"password123", "admin123", "letmein99", "pw"}

\* String.prototype.trim, for the white space that is the space
RECURSIVE TrimStart(_)
TrimStart(s) == IF s # "" /\ Head(s) = " " THEN TrimStart(Tail(s)) ELSE s

RECURSIVE TrimEnd(_)
TrimEnd(s) ==
    IF s # "" /\ SubSeq(s, Len(s), Len(s)) = " " THEN TrimEnd(SubSeq(s, 1, Len(s) - 1)) ELSE s

Trim(s) == TrimEnd(TrimStart(s))

\* String.prototype.toLowerCase, for the letters A to Z
UpperCaseLetters ==
    << "A", "B", "C", "D", "E", "F", "G", "H", "I", "J", "K", "L", "M",
       "N", "O", "P", "Q", "R", "S", "T", "U", "V", "W", "X", "Y", "Z" >>
LowerCaseLetters ==
    << "a", "b", "c", "d", "e", "f", "g", "h", "i", "j", "k", "l", "m",
       "n", "o", "p", "q", "r", "s", "t", "u", "v", "w", "x", "y", "z" >>

LowerCaseLetter ==
    [c \in {UpperCaseLetters[i] : i \in 1..Len(UpperCaseLetters)} |->
        LowerCaseLetters[CHOOSE i \in 1..Len(UpperCaseLetters) : UpperCaseLetters[i] = c]]

RECURSIVE ToLowerCase(_)
ToLowerCase(s) ==
    IF s = "" THEN ""
    ELSE LET c == Head(s)
         IN  (IF c \in DOMAIN LowerCaseLetter THEN LowerCaseLetter[c] ELSE c)
                 \o ToLowerCase(Tail(s))

\* String.prototype.includes
Includes(s, term) ==
    \E i \in 1..(Len(s) - Len(term) + 1) : SubSeq(s, i, i + Len(term) - 1) = term

\* String.prototype.replace with a string pattern: the first occurrence only
Replace(s, pattern, replacement) ==
    IF ~Includes(s, pattern) THEN s
    ELSE LET at == {i \in 1..(Len(s) - Len(pattern) + 1) :
                        SubSeq(s, i, i + Len(pattern) - 1) = pattern}
             i == CHOOSE i \in at : \A j \in at : i =< j
         IN  SubSeq(s, 1, i - 1) \o replacement \o SubSeq(s, i + Len(pattern), Len(s))

\* /^[^\s@]+@[^\s@]+\.[^\s@]+$/ on the strings the forms are given
isValidEmail(email) ==
    email \notin {"student", " Student@University.EDU ", "", "ana", " Ana@Mail.com ",
                  " ana@mail.com "}

getLoginFormData(emailInput, passwordInput) ==
    [email |-> ToLowerCase(Trim(emailInput)), password |-> passwordInput]

validateLoginForm(formData) ==
    /\ formData.email # ""
    /\ isValidEmail(formData.email)
    /\ formData.password # ""
    /\ Len(formData.password) >= PASSWORD_MIN_LENGTH

\* DOMContentLoaded of the login page
LoadIndex(t) ==
    /\ page[t] = "index" /\ phase[t] \in {"closed", "loading"}
    /\ LET r == checkExistingSession(lsSession, now)
       IN  /\ lsSession' = r.session
           /\ timer' = [timer EXCEPT ![t] = IF r.redirect THEN "toDashboard" ELSE "none"]
           /\ message' = [message EXCEPT ![t] =
                            IF r.redirect THEN "Welcome back! Redirecting..." ELSE NoValue]
    /\ phase' = [phase EXCEPT ![t] = "ready"]
    /\ UNCHANGED << now, ticks, regVars, lsDrafts, lsTasks, lsEditingTaskId, page, urlEdit, scriptVars,
                    shownStats, rendered, rows, console, loginEmail >>

\* submit of the login form
handleLoginSubmit(t, emailInput, passwordInput) ==
    /\ page[t] = "index" /\ phase[t] = "ready"
    /\ loginEmail' = [loginEmail EXCEPT ![t] = emailInput]
    /\ LET formData == getLoginFormData(emailInput, passwordInput)
           authResult == authenticateUser(formData.email, formData.password)
       IN  IF ~validateLoginForm(formData)
           THEN /\ console' = [console EXCEPT ![t] = "Form validation failed"]
                /\ UNCHANGED << lsSession, timer, message >>
           ELSE IF authResult.success
           THEN /\ lsSession' = createUserSession(authResult.user, now)
                /\ message' = [message EXCEPT ![t] = "Welcome back"]
                /\ timer' = [timer EXCEPT ![t] = "toDashboard"]
                /\ console' = [console EXCEPT ![t] = "Authentication successful"]
           ELSE /\ message' = [message EXCEPT ![t] = authResult.error]
                /\ console' = [console EXCEPT ![t] = "Login failed"]
                /\ UNCHANGED << lsSession, timer >>
    /\ UNCHANGED << now, ticks, regVars, lsDrafts, lsTasks, lsEditingTaskId, locVars, scriptVars,
                    shownStats, rendered, rows >>


\* ------------------------------------------------------------------------
\* Tasks
\* ------------------------------------------------------------------------
\* A task is a JSON object: a record with id, title, category, priority,
\* status, updatedAt and, when present, description, assignee, tags, dueDate,
\* createdAt and userId.  Dates are instants of the clock, in minutes.
\* JSON.stringify drops a property whose value is undefined, so an absent
\* property is an absent field.

RandomSuffixes == 1..MaxRandom

\* 'task_' + Date.now() + '_' + Math.random().toString(36).substr(2, 9)
generateTaskId(clock, r) == "task_" \o ToString(clock) \o "_" \o ToString(r)

\* The demonstration tasks of the dashboard, in the order of the source.  Their
\* dates are of February and March 2024, before the clock's origin: here in
\* days from 2024-04-01.
SampleTable == <<
    [title |-> "Complete Quarter 3 Report", category |-> "Mathematics",
     priority |-> "High", status |-> "In Progress",
     dueDate |-> -17, createdAt |-> -31, updatedAt |-> -22],
    [title |-> "Physics Lab Report: Quantum Mechanics", category |-> "Physics",
     priority |-> "Medium", status |-> "Pending",
     dueDate |-> -12, createdAt |-> -27, updatedAt |-> -27],
    [title |-> "History Essay: Industrial Revolution", category |-> "History",
     priority |-> "Low", status |-> "Completed",
     dueDate |-> -22, createdAt |-> -41, updatedAt |-> -24],
    [title |-> "Database Systems Project: Phase 1", category |-> "Computer Science",
     priority |-> "High", status |-> "In Progress",
     dueDate |-> -7, createdAt |-> -31, updatedAt |-> -20],
    [title |-> "Literature Review: Modernist Poetry", category |-> "Literature",
     priority |-> "Medium", status |-> "Pending",
     dueDate |-> -2, createdAt |-> -24, updatedAt |-> -24] >>

\* rs: the outcomes of Math.random() in the calls of generateTaskId; a date is
\* an instant of the clock, whose unit is the minute
createSampleTasks(clock, rs) ==
    [i \in 1..MaxSampleTasks |->
        [id |-> generateTaskId(clock, rs[i]), title |-> SampleTable[i].title,
         category |-> SampleTable[i].category, priority |-> SampleTable[i].priority,
         status |-> SampleTable[i].status, dueDate |-> SampleTable[i].dueDate * 1440,
         createdAt |-> SampleTable[i].createdAt * 1440,
         updatedAt |-> SampleTable[i].updatedAt * 1440]]

\* a filter that keeps only the tasks that name the user as their owner
VisibleTo_OwnedOnly(task, user) == Has(task, "userId") /\ task.userId = user.id

\* task => !task.userId || task.userId === user.id
VisibleTo(task, user) == ~Has(task, "userId") \/ task.userId = user.id

\* JSON.stringify of an array of task objects held by reference
Stringify(objs, refs) == [i \in 1..Len(refs) |-> objs[refs[i]]]

\* the percentage cut to an integer instead of rounded
RoundPercent_Floor(n, d) == (100 * n) \div d

\* Math.round(n / d * 100) for d > 0: the nearest integer, the greater one of
\* two equally near
RoundPercent(n, d) == (200 * n + d) \div (2 * d)

Count(tasks, Test(_)) == Cardinality({i \in 1..Len(tasks) : Test(tasks[i])})

\* the instant so many days before the clock's
DaysAgo(clock, days) == clock - days * 1440

\* the trend taken over one task when the prior week has none
weeklyTrend_OverOne(completedThisWeek, lastWeekTasks) ==
    IF lastWeekTasks > 0
    THEN RoundPercent(completedThisWeek - lastWeekTasks, lastWeekTasks)
    ELSE RoundPercent(completedThisWeek, 1)

\* stats.weeklyTrend of calculateTaskStatistics
weeklyTrend(completedThisWeek, lastWeekTasks) ==
    IF lastWeekTasks > 0
    THEN RoundPercent(completedThisWeek - lastWeekTasks, lastWeekTasks)
    ELSE 0

\* calculateTaskStatistics at the instant clock.  A date the task does not
\* have compares false with every instant.
calculateTaskStatistics(tasks, clock) ==
    LET total == Len(tasks)
        completed == Count(tasks, LAMBDA x : x.status = "Completed")
        weekAgo == DaysAgo(clock, 7)
        twoWeeksAgo == DaysAgo(clock, 14)
        completedThisWeek ==
            Count(tasks, LAMBDA x : /\ x.status = "Completed"
                                    /\ Has(x, "updatedAt") /\ x.updatedAt >= weekAgo)
        lastWeekTasks ==
            Count(tasks, LAMBDA x : /\ Has(x, "createdAt")
                                    /\ x.createdAt >= twoWeeksAgo /\ x.createdAt < weekAgo)
    IN  [total |-> total,
         completed |-> completed,
         pending |-> Count(tasks, LAMBDA x : x.status = "Pending"),
         inProgress |-> Count(tasks, LAMBDA x : x.status = "In Progress"),
         highPriority |-> Count(tasks, LAMBDA x : /\ Has(x, "priority") /\ x.priority = "High"
                                                  /\ x.status # "Completed"),
         overdue |-> Count(tasks, LAMBDA x : /\ x.status # "Completed"
                                             /\ Has(x, "dueDate") /\ x.dueDate < clock),
         completedThisWeek |-> completedThisWeek,
         averageCompletionTime |-> 0,
         overallProgress |-> IF total > 0 THEN RoundPercent(completed, total) ELSE 0,
         weeklyTrend |-> weeklyTrend(completedThisWeek, lastWeekTasks)]

\* loadUserTasks: the store, the parsed objects and the user's list after it.
\* quota: localStorage.setItem throws (QuotaExceededError).
loadUserTasks(stored, user, clock, rs, quota) ==
    LET seeded == Len(stored) = 0
        tasks == IF seeded THEN createSampleTasks(clock, rs) ELSE stored
        mine == SelectIdx([i \in 1..Len(tasks) |-> i],
                          [i \in 1..Len(tasks) |-> VisibleTo(tasks[i], user)], 1)
    IN  IF seeded /\ quota
        THEN [store |-> stored, heap |-> <<>>, tasks |-> <<>>]
        ELSE [store |-> tasks, heap |-> tasks, tasks |-> mine]

\* renderDashboardStatistics: cache, its time and the numbers put on the page
renderDashboardStatistics(ds, objs, clock) ==
    IF ds.statisticsCache # Null /\ clock - ds.lastUpdate < STATISTICS_CACHE_DURATION
    THEN [statisticsCache |-> ds.statisticsCache, lastUpdate |-> ds.lastUpdate,
          shown |-> ds.statisticsCache]
    ELSE LET stats == calculateTaskStatistics(Stringify(objs, ds.tasks), clock)
         IN  [statisticsCache |-> stats, lastUpdate |-> clock, shown |-> stats]

\* STATUS_ORDER[status] || 0 and PRIORITY_ORDER[priority] || 0
STATUS_ORDER(status) ==
    CASE status = "Pending" -> 1
      [] status = "In Progress" -> 2
      [] status = "Completed" -> 3
      [] OTHER -> 0

PRIORITY_ORDER(task) ==
    IF ~Has(task, "priority") THEN 0
    ELSE CASE task.priority = "High" -> 3
           [] task.priority = "Medium" -> 2
           [] task.priority = "Low" -> 1
           [] OTHER -> 0

\* sortTasksByRelevance: the comparator's number.  A due date is an instant of
\* the clock; a task without due date has no dueDate property.
sortTasksByRelevance(a, b) ==
    IF STATUS_ORDER(a.status) # STATUS_ORDER(b.status)
    THEN STATUS_ORDER(a.status) - STATUS_ORDER(b.status)
    ELSE IF PRIORITY_ORDER(a) # PRIORITY_ORDER(b)
    THEN PRIORITY_ORDER(b) - PRIORITY_ORDER(a)
    ELSE IF Has(a, "dueDate") /\ Has(b, "dueDate")
    THEN a.dueDate - b.dueDate
    ELSE 0

\* Array.prototype.sort(sortTasksByRelevance) as V8 (Chrome, Edge, Node) sorts
\* an array shorter than 64: the run the array starts with is found and
\* reversed if it is strictly descending (CountAndMakeRun), then every other
\* element is inserted where a binary search puts it (BinaryInsertionSort).
\* For a consistent comparator this is the stable sorted order every engine
\* gives; sortTasksByRelevance is not consistent when some tasks have a due
\* date and some have none, and ECMAScript then leaves the order to the engine.
RECURSIVE CountAndMakeRun(_, _, _)
CountAndMakeRun(tasks, isDescending, idx) ==
    IF idx > Len(tasks) THEN Len(tasks)
    ELSE LET order == sortTasksByRelevance(tasks[idx], tasks[idx - 1])
         IN  IF (isDescending /\ order >= 0) \/ (~isDescending /\ order < 0)
             THEN idx - 1
             ELSE CountAndMakeRun(tasks, isDescending, idx + 1)

\* the number of elements of sorted the pivot is inserted after
RECURSIVE BinarySearch(_, _, _, _)
BinarySearch(sorted, pivot, left, right) ==
    IF left >= right THEN left
    ELSE LET mid == left + (right - left) \div 2
         IN  IF sortTasksByRelevance(pivot, sorted[mid + 1]) < 0
             THEN BinarySearch(sorted, pivot, left, mid)
             ELSE BinarySearch(sorted, pivot, mid + 1, right)

RECURSIVE BinaryInsertionSort(_, _)
BinaryInsertionSort(sorted, rest) ==
    IF rest = <<>> THEN sorted
    ELSE LET pivot == Head(rest)
             k == BinarySearch(sorted, pivot, 0, Len(sorted))
         IN  BinaryInsertionSort(SubSeq(sorted, 1, k) \o <<pivot>>
                                     \o SubSeq(sorted, k + 1, Len(sorted)),
                                 Tail(rest))

ReverseRange(s) == [i \in 1..Len(s) |-> s[Len(s) + 1 - i]]

ArraySort(tasks) ==
    IF Len(tasks) < 2 THEN tasks
    ELSE LET isDescending == sortTasksByRelevance(tasks[2], tasks[1]) < 0
             runLength == CountAndMakeRun(tasks, isDescending, 3)
             run == SubSeq(tasks, 1, runLength)
         IN  BinaryInsertionSort(IF isDescending THEN ReverseRange(run) ELSE run,
                                 SubSeq(tasks, runLength + 1, Len(tasks)))

Min(a, b) == IF a < b THEN a ELSE b

\* renderTasksList: the rows put in #tasks-container, top to bottom:
\* [...filteredTasks].sort(sortTasksByRelevance).slice(0, TASKS_DISPLAY_LIMIT)
sortedTasks(ds, objs) ==
    LET sorted == ArraySort(Stringify(objs, ds.filteredTasks))
    IN  [i \in 1..Min(Len(sorted), TASKS_DISPLAY_LIMIT) |-> sorted[i].id]

\* renderTasksList: the rows put in #tasks-container (at most
\* TASKS_DISPLAY_LIMIT = 5 of them; the collections here are shorter)
renderTasksList(ds, objs) == {objs[ds.filteredTasks[i]].id : i \in 1..Len(ds.filteredTasks)}


\* ------------------------------------------------------------------------
\* Dashboard (dashboard.js)
\* ------------------------------------------------------------------------
SampleRandoms == [1..MaxSampleTasks -> RandomSuffixes]

\* loadUserTasks, renderDashboardStatistics and renderTasksList in a row, as
\* the page's initialization and refreshDashboard run them
LoadAndRender(t, user, rs, quota) ==
    LET l == loadUserTasks(lsTasks, user, now, rs, quota)
        ds1 == [dashboardState[t] EXCEPT !.currentUser = user, !.tasks = l.tasks,
                                         !.filteredTasks = l.tasks]
        st == renderDashboardStatistics(ds1, l.heap, now)
        ds2 == [ds1 EXCEPT !.statisticsCache = st.statisticsCache,
                           !.lastUpdate = st.lastUpdate]
    IN  /\ lsTasks' = l.store
        /\ heap' = [heap EXCEPT ![t] = l.heap]
        /\ dashboardState' = [dashboardState EXCEPT ![t] = ds2]
        /\ shownStats' = [shownStats EXCEPT ![t] = st.shown]
        /\ rendered' = [rendered EXCEPT ![t] = renderTasksList(ds2, l.heap)]
        /\ rows' = [rows EXCEPT ![t] = sortedTasks(ds2, l.heap)]

\* DOMContentLoaded of the dashboard
LoadDashboard(t, rs, quota) ==
    /\ page[t] = "dashboard" /\ phase[t] = "loading"
    /\ LET auth == verifyUserAuthentication(lsSession, now)
       IN  /\ lsSession' = auth.session
           /\ IF ~auth.ok
              THEN /\ GoTo(t, "index", NoValue)
                   /\ UNCHANGED lsTasks
              ELSE /\ LoadAndRender(t, loadCurrentUser(lsSession).user, rs, quota)
                   /\ phase' = [phase EXCEPT ![t] = "ready"]
                   /\ message' = [message EXCEPT ![t] = "Welcome"]
                   /\ UNCHANGED << page, urlEdit, currentUser, tasksState,
                                   taskFormState, autoSaveTimer, draftLog, timer, console, loginEmail >>
    /\ UNCHANGED << now, ticks, regVars, lsDrafts, lsEditingTaskId >>

\* Ctrl+R or a tick of the 30-second auto-refresh interval
refreshDashboard(t, rs, quota) ==
    /\ page[t] = "dashboard" /\ phase[t] = "ready"
    /\ LoadAndRender(t, dashboardState[t].currentUser, rs, quota)
    /\ UNCHANGED << now, ticks, regVars, lsDrafts, lsSession, lsEditingTaskId, locVars, currentUser,
                    tasksState, taskFormState, autoSaveTimer, draftLog, timer, message, console, loginEmail >>

\* dashboardState.tasks.find(t => t.id === taskId): its position, 0 if none
FindTask(ds, objs, taskId) == FindIndex(ds.tasks, LAMBDA r : objs[r].id = taskId)

\* a toggleTaskStatus that reads the stored collection again and writes it
\* back with only the toggled task replaced
toggleTaskStatus_Merging(t, taskId, quota) ==
    /\ page[t] = "dashboard" /\ phase[t] = "ready"
    /\ LET ds == dashboardState[t]
           i == FindTask(ds, heap[t], taskId)
       IN  /\ i # 0 /\ ~quota
           /\ LET ref == ds.tasks[i]
                  newStatus == IF heap[t][ref].status = "Completed" THEN "Pending"
                                                                   ELSE "Completed"
                  objs == [heap[t] EXCEPT ![ref].status = newStatus, ![ref].updatedAt = now]
                  st == renderDashboardStatistics(ds, objs, now)
              IN  /\ heap' = [heap EXCEPT ![t] = objs]
                  /\ lsTasks' = [k \in 1..Len(lsTasks) |->
                                    IF lsTasks[k].id = taskId THEN objs[ref] ELSE lsTasks[k]]
                  /\ message' = [message EXCEPT ![t] =
                                   IF newStatus = "Completed" THEN "marked as completed!"
                                                              ELSE "reopened for work."]
                  /\ dashboardState' = [dashboardState EXCEPT ![t] =
                                          [ds EXCEPT !.statisticsCache = st.statisticsCache,
                                                     !.lastUpdate = st.lastUpdate]]
                  /\ shownStats' = [shownStats EXCEPT ![t] = st.shown]
                  /\ rendered' = [rendered EXCEPT ![t] = renderTasksList(ds, objs)]
                  /\ rows' = [rows EXCEPT ![t] = sortedTasks(ds, objs)]
                  /\ console' = [console EXCEPT ![t] = "Task marked"]
    /\ UNCHANGED << now, ticks, regVars, lsDrafts, lsSession, lsEditingTaskId, locVars, currentUser,
                    tasksState, taskFormState, autoSaveTimer, draftLog, timer, loginEmail >>

toggleTaskStatus(t, taskId, quota) ==
    /\ page[t] = "dashboard" /\ phase[t] = "ready"
    /\ LET ds == dashboardState[t]
           i == FindTask(ds, heap[t], taskId)
       IN  IF i = 0
           THEN /\ console' = [console EXCEPT ![t] = "Task not found"]
                /\ UNCHANGED << lsTasks, heap, dashboardState, shownStats, rendered, rows, message >>
           ELSE
           LET ref == ds.tasks[i]
               newStatus == IF heap[t][ref].status = "Completed" THEN "Pending" ELSE "Completed"
               objs == [heap[t] EXCEPT ![ref].status = newStatus, ![ref].updatedAt = now]
               st == renderDashboardStatistics(ds, objs, now)
           IN  IF quota
               THEN \* catch: "revert" the status
                    /\ heap' = [heap EXCEPT ![t] =
                                  [objs EXCEPT ![ref].status =
                                      IF objs[ref].status = "Completed" THEN "Pending"
                                                                       ELSE "Completed"]]
                    /\ message' = [message EXCEPT ![t] =
                                     "Failed to update task status. Please try again."]
                    /\ console' = [console EXCEPT ![t] = "Error updating task status"]
                    /\ UNCHANGED << lsTasks, dashboardState, shownStats, rendered, rows >>
               ELSE /\ heap' = [heap EXCEPT ![t] = objs]
                    /\ lsTasks' = Stringify(objs, ds.tasks)
                    /\ message' = [message EXCEPT ![t] =
                                     IF newStatus = "Completed" THEN "marked as completed!"
                                                                ELSE "reopened for work."]
                    /\ dashboardState' = [dashboardState EXCEPT ![t] =
                                            [ds EXCEPT !.statisticsCache = st.statisticsCache,
                                                       !.lastUpdate = st.lastUpdate]]
                    /\ shownStats' = [shownStats EXCEPT ![t] = st.shown]
                    /\ rendered' = [rendered EXCEPT ![t] = renderTasksList(ds, objs)]
                    /\ rows' = [rows EXCEPT ![t] = sortedTasks(ds, objs)]
                    /\ console' = [console EXCEPT ![t] = "Task marked"]
    /\ UNCHANGED << now, ticks, regVars, lsDrafts, lsSession, lsEditingTaskId, locVars, currentUser,
                    tasksState, taskFormState, autoSaveTimer, draftLog, timer, loginEmail >>

\* confirmed: the user's answer to confirm()
deleteTask(t, taskId, confirmed, quota) ==
    /\ page[t] = "dashboard" /\ phase[t] = "ready"
    /\ LET ds == dashboardState[t]
           objs == heap[t]
           i == FindTask(ds, objs, taskId)
           ds1 == [ds EXCEPT !.tasks = Filter(ds.tasks, LAMBDA r : objs[r].id # taskId),
                             !.filteredTasks =
                                 Filter(ds.filteredTasks, LAMBDA r : objs[r].id # taskId)]
           st == renderDashboardStatistics(ds1, objs, now)
       IN  IF i = 0
           THEN /\ console' = [console EXCEPT ![t] = "Task not found"]
                /\ UNCHANGED << lsTasks, dashboardState, shownStats, timer, message >>
           ELSE IF ~confirmed
           THEN /\ console' = [console EXCEPT ![t] = "Task deletion cancelled by user"]
                /\ UNCHANGED << lsTasks, dashboardState, shownStats, timer, message >>
           ELSE IF quota
           THEN /\ dashboardState' = [dashboardState EXCEPT ![t] = ds1]
                /\ message' = [message EXCEPT ![t] = "Failed to delete task. Please try again."]
                /\ console' = [console EXCEPT ![t] = "Error deleting task"]
                /\ UNCHANGED << lsTasks, shownStats, timer >>
           ELSE /\ lsTasks' = Stringify(objs, ds1.tasks)
                /\ message' = [message EXCEPT ![t] = "has been deleted."]
                /\ dashboardState' = [dashboardState EXCEPT ![t] =
                                        [ds1 EXCEPT !.statisticsCache = st.statisticsCache,
                                                    !.lastUpdate = st.lastUpdate]]
                /\ shownStats' = [shownStats EXCEPT ![t] = st.shown]
                /\ timer' = [timer EXCEPT ![t] = "renderTasksList"]
                /\ console' = [console EXCEPT ![t] = "Task deleted successfully"]
    /\ UNCHANGED << now, ticks, regVars, lsDrafts, lsSession, lsEditingTaskId, locVars, currentUser, heap,
                    tasksState, taskFormState, autoSaveTimer, draftLog, rendered, rows, loginEmail >>

\* The values the filter buttons pass to filterTasks, and one that no case of
\* its switch names.
FilterTypes == {"all", "pending", "completed", "in-progress", "overdue"}

\* a click on a filter button
filterTasks(t, filterType) ==
    /\ page[t] = "dashboard" /\ phase[t] = "ready"
    /\ LET ds == dashboardState[t]
           objs == heap[t]
           filtered ==
               CASE filterType = "all" -> ds.tasks
                 [] filterType = "pending" ->
                        Filter(ds.tasks, LAMBDA r : objs[r].status = "Pending")
                 [] filterType = "completed" ->
                        Filter(ds.tasks, LAMBDA r : objs[r].status = "Completed")
                 [] filterType = "in-progress" ->
                        Filter(ds.tasks, LAMBDA r : objs[r].status = "In Progress")
                 [] OTHER -> ds.tasks
           ds1 == [ds EXCEPT !.currentFilter = filterType, !.filteredTasks = filtered]
       IN  /\ dashboardState' = [dashboardState EXCEPT ![t] = ds1]
           /\ rendered' = [rendered EXCEPT ![t] = renderTasksList(ds1, objs)]
           /\ rows' = [rows EXCEPT ![t] = sortedTasks(ds1, objs)]
           /\ console' = [console EXCEPT ![t] = "Filtered"]
    /\ UNCHANGED << now, ticks, regVars, lsDrafts, storeVars, locVars, currentUser, heap,
                    tasksState, taskFormState, autoSaveTimer, draftLog, shownStats, timer,
                    message, loginEmail >>

\* the dashboard's edit button
editTaskFromDashboard(t, taskId) ==
    /\ page[t] = "dashboard" /\ phase[t] = "ready"
    /\ lsEditingTaskId' = taskId
    /\ GoTo(t, "create-task", NoValue)
    /\ UNCHANGED << now, ticks, regVars, lsDrafts, lsSession, lsTasks >>


\* ------------------------------------------------------------------------
\* Tasks page (tasks.js)
\* ------------------------------------------------------------------------
Statuses == {"Pending", "In Progress", "Completed"}

\* TASKS_CONFIG.CATEGORIES.map(cat => cat.name)
CategoryNames == << "Mathematics", "Physics", "History", "Computer Science", "Literature",
                    "Chemistry", "Biology", "Art", "Music" >>

\* priorities
Priorities == {"Low", "Medium", "High"}

\* createdDate = today - Math.floor(Math.random() * 90) days: the ages drawn
SampleAgeDays == {0, 89}

\* dueDate = today + Math.floor(Math.random() * 30) - 10 days: the offsets drawn
SampleDueDays == {-10, 19}

\* toISOString().split('T')[0] read back by new Date: the start of the day
DateOnly(clock) == (clock \div 1440) * 1440

\* The demonstration tasks of the tasks page: sts, prs, ages and dues are the
\* outcomes of Math.random() for the status, the priority, the age and the due
\* date of each; the title stands for the one generateTaskTitle picks.
createExtensiveSampleTasks(clock, user, rs, sts, prs, ages, dues) ==
    [i \in 1..MaxSampleTasks |->
        [id |-> generateTaskId(clock, rs[i]),
         title |-> "Assignment " \o ToString(i),
         category |-> CategoryNames[(i % Len(CategoryNames)) + 1],
         priority |-> prs[i],
         status |-> sts[i],
         dueDate |-> DateOnly(clock + dues[i] * 1440),
         createdAt |-> clock - ages[i] * 1440,
         updatedAt |-> clock,
         userId |-> user.id]]

\* loadAllTasks: the store, the parsed objects and the user's list after it
loadAllTasks(stored, user, clock, rs, sts, prs, ages, dues, quota) ==
    LET seeded == Len(stored) = 0
        tasks == IF seeded THEN createExtensiveSampleTasks(clock, user, rs, sts, prs, ages, dues)
                           ELSE stored
        mine == SelectIdx([i \in 1..Len(tasks) |-> i],
                          [i \in 1..Len(tasks) |-> VisibleTo(tasks[i], user)], 1)
    IN  IF seeded /\ quota
        THEN [store |-> stored, heap |-> <<>>, tasks |-> <<>>]
        ELSE [store |-> tasks, heap |-> tasks, tasks |-> mine]

\* isTaskOverdue at the instant clock: the card of the task is marked overdue
isTaskOverdue(task, clock) ==
    IF ~Has(task, "dueDate") \/ task.status = "Completed" THEN FALSE
    ELSE task.dueDate < clock

\* searchTasks comparing the title as it is written
searchTasks_CaseSensitive(ts, objs) ==
    LET searchTerm == ts.activeFilters.search
    IN  IF searchTerm = "" THEN ts.allTasks
        ELSE SelectIdx(ts.allTasks,
                       [i \in 1..Len(ts.allTasks) |->
                           Includes(objs[ts.allTasks[i]].title, searchTerm)], 1)

\* searchTasks: the tasks of allTasks one of whose fields contains the term
searchTasks(ts, objs) ==
    LET searchTerm == ts.activeFilters.search
        Found(task) ==
            \/ Includes(ToLowerCase(task.title), searchTerm)
            \/ Has(task, "description") /\ Includes(ToLowerCase(task.description), searchTerm)
            \/ Includes(ToLowerCase(task.category), searchTerm)
            \/ Has(task, "assignee") /\ Includes(ToLowerCase(task.assignee), searchTerm)
            \/ Has(task, "tags") /\ \E k \in 1..Len(task.tags) :
                                        Includes(ToLowerCase(task.tags[k]), searchTerm)
            \/ Includes(ToLowerCase(task.id), searchTerm)
            \/ Includes(ToLowerCase(task.status), searchTerm)
            \/ Includes(ToLowerCase(task.priority), searchTerm)
    IN  IF searchTerm = "" THEN ts.allTasks
        ELSE SelectIdx(ts.allTasks,
                       [i \in 1..Len(ts.allTasks) |-> Found(objs[ts.allTasks[i]])], 1)

Max(a, b) == IF a > b THEN a ELSE b

\* applyFiltersAndSorting leaving the page number as it was
applyFiltersAndSorting_SamePage(ts, objs) ==
    LET searched == searchTasks(ts, objs)
        filtered == SelectIdx(searched,
                              [i \in 1..Len(searched) |->
                                  /\ ts.activeFilters.category # "all"
                                     => ToLowerCase(objs[searched[i]].category)
                                            = ToLowerCase(ts.activeFilters.category)
                                  /\ ts.activeFilters.priority # "all"
                                     => ToLowerCase(objs[searched[i]].priority)
                                            = ToLowerCase(ts.activeFilters.priority)
                                  /\ ts.activeFilters.status # "all"
                                     => Replace(ToLowerCase(objs[searched[i]].status), " ", "-")
                                            = ToLowerCase(ts.activeFilters.status)], 1)
    IN  [ts EXCEPT !.filteredTasks = filtered,
                   !.totalPages = (Len(filtered) + ts.tasksPerPage - 1) \div ts.tasksPerPage]

\* applyFiltersAndSorting without its category filter
applyFiltersAndSorting_AnyCategory(ts, objs) ==
    LET searched == searchTasks(ts, objs)
        filtered == SelectIdx(searched,
                              [i \in 1..Len(searched) |->
                                  /\ ts.activeFilters.priority # "all"
                                     => ToLowerCase(objs[searched[i]].priority)
                                            = ToLowerCase(ts.activeFilters.priority)
                                  /\ ts.activeFilters.status # "all"
                                     => Replace(ToLowerCase(objs[searched[i]].status), " ", "-")
                                            = ToLowerCase(ts.activeFilters.status)], 1)
        totalPages == (Len(filtered) + ts.tasksPerPage - 1) \div ts.tasksPerPage
    IN  [ts EXCEPT !.filteredTasks = filtered,
                   !.totalPages = totalPages,
                   !.currentPage = Min(ts.currentPage, Max(1, totalPages))]

\* applyFiltersAndSorting: tasksState after it.  sortTasksByField returns 0 for
\* every pair, so the sort leaves the order.
applyFiltersAndSorting(ts, objs) ==
    LET searched == searchTasks(ts, objs)
        InCategory(task) ==
            ts.activeFilters.category # "all"
            => ToLowerCase(task.category) = ToLowerCase(ts.activeFilters.category)
        InPriority(task) ==
            ts.activeFilters.priority # "all"
            => ToLowerCase(task.priority) = ToLowerCase(ts.activeFilters.priority)
        InStatus(task) ==
            ts.activeFilters.status # "all"
            => Replace(ToLowerCase(task.status), " ", "-") = ToLowerCase(ts.activeFilters.status)
        filtered == SelectIdx(searched,
                              [i \in 1..Len(searched) |->
                                  /\ InCategory(objs[searched[i]])
                                  /\ InPriority(objs[searched[i]])
                                  /\ InStatus(objs[searched[i]])], 1)
        totalPages == (Len(filtered) + ts.tasksPerPage - 1) \div ts.tasksPerPage
    IN  [ts EXCEPT !.filteredTasks = filtered,
                   !.totalPages = totalPages,
                   !.currentPage = Min(ts.currentPage, Max(1, totalPages))]

\* renderTasksList of the tasks page: the cards put in #detailed-task-list,
\* filteredTasks.slice(startIndex, endIndex)
tasksToShow(ts, objs) ==
    LET startIndex == (ts.currentPage - 1) * ts.tasksPerPage
        endIndex == Min(startIndex + ts.tasksPerPage, Len(ts.filteredTasks))
    IN  [i \in 1..Max(endIndex - startIndex, 0) |-> objs[ts.filteredTasks[startIndex + i]].id]

\* the ids of a list of rows
Ids(r) == {r[i] : i \in 1..Len(r)}

\* DOMContentLoaded of the tasks page
LoadTasks(t, rs, sts, prs, ages, dues, quota) ==
    /\ page[t] = "tasks" /\ phase[t] = "loading"
    /\ IF ~verifyAuthentication(lsSession)
       THEN /\ GoTo(t, "index", NoValue)
            /\ UNCHANGED lsTasks
       ELSE /\ phase' = [phase EXCEPT ![t] = "ready"]
            /\ UNCHANGED << page, urlEdit, dashboardState, taskFormState, autoSaveTimer, draftLog, shownStats,
                            timer, console, loginEmail >>
            /\ LET u == loadCurrentUser(lsSession)
                   l == loadAllTasks(lsTasks, u.user, now, rs, sts, prs, ages, dues, quota)
               IN  IF u.threw
                   THEN /\ message' = [message EXCEPT ![t] =
                                         "Failed to load tasks management system."]
                        /\ UNCHANGED << lsTasks, currentUser, heap, tasksState, rendered, rows >>
                   ELSE /\ currentUser' = [currentUser EXCEPT ![t] = u.user]
                        /\ lsTasks' = l.store
                        /\ heap' = [heap EXCEPT ![t] = l.heap]
                        /\ LET ts == applyFiltersAndSorting(
                                         [tasksState[t] EXCEPT !.allTasks = l.tasks,
                                                               !.filteredTasks = l.tasks],
                                         l.heap)
                           IN  /\ tasksState' = [tasksState EXCEPT ![t] = ts]
                               /\ rows' = [rows EXCEPT ![t] = tasksToShow(ts, l.heap)]
                               /\ rendered' = [rendered EXCEPT ![t] =
                                                 Ids(tasksToShow(ts, l.heap))]
                        /\ UNCHANGED message
    /\ UNCHANGED << now, ticks, regVars, lsDrafts, lsSession, lsEditingTaskId >>

\* the tasks page's edit button
editTask(t, taskId) ==
    /\ page[t] = "tasks" /\ phase[t] = "ready"
    /\ GoTo(t, "create-task", taskId)
    /\ UNCHANGED << now, ticks, regVars, lsDrafts, storeVars >>

\* the tasks page's delete button
deleteTaskOnTasksPage(t, taskId) ==
    /\ page[t] = "tasks" /\ phase[t] = "ready"
    /\ console' = [console EXCEPT ![t] = "Deleted: " \o taskId]
    /\ UNCHANGED << now, ticks, regVars, lsDrafts, storeVars, locVars, scriptVars, shownStats, rendered, rows,
                    timer, message, loginEmail >>

\* What the user types in the search box.
SearchTerms == {"", "lab", " PHYSICS ", "in progress", "task_1", "sarah", "urgent", "high", "zzz"}

\* the search box's input handler, once its debounce timer has run:
\* performSearch
performSearch(t, searchTerm) ==
    /\ page[t] = "tasks" /\ phase[t] = "ready"
    /\ LET ts == applyFiltersAndSorting(
                     [tasksState[t] EXCEPT !.activeFilters.search = Trim(ToLowerCase(searchTerm))],
                     heap[t])
       IN  /\ tasksState' = [tasksState EXCEPT ![t] = ts]
           /\ rows' = [rows EXCEPT ![t] = tasksToShow(ts, heap[t])]
           /\ rendered' = [rendered EXCEPT ![t] = Ids(tasksToShow(ts, heap[t]))]
           /\ console' = [console EXCEPT ![t] =
                            IF searchTerm # "" /\ Len(ts.filteredTasks) = 0
                            THEN "No results for: " \o searchTerm
                            ELSE "Searching tasks for: " \o searchTerm]
    /\ UNCHANGED << now, ticks, regVars, lsDrafts, storeVars, locVars, currentUser, heap, dashboardState,
                    taskFormState, autoSaveTimer, draftLog, shownStats, timer, message, loginEmail >>

\* the object with property f set to v
WithProperty(object, f, v) ==
    [g \in DOMAIN object \cup {f} |-> IF g = f THEN v ELSE object[g]]

\* task.status.toLowerCase().replace(' ', ''): the counter a task's status names
StatusCounter(status) == Replace(ToLowerCase(status), " ", "")

\* the sum of task.estimatedHours || 0 over the tasks from the i-th on
RECURSIVE TotalHours(_, _)
TotalHours(tasks, i) ==
    IF i > Len(tasks) THEN 0
    ELSE (IF Has(tasks[i], "estimatedHours") THEN tasks[i].estimatedHours ELSE 0)
             + TotalHours(tasks, i + 1)

\* the key under which categoryData holds a task
CategoryOf(task) == IF Has(task, "category") THEN task.category ELSE NoValue

\* calculateCategoryStatistics: categoryData, an object by category.  ++ on a
\* property the object does not have leaves NaN in it.
calculateCategoryStatistics(tasks) ==
    LET Data(c) ==
            LET mine == Filter(tasks, LAMBDA x : CategoryOf(x) = c)
                named == {StatusCounter(mine[i].status) : i \in 1..Len(mine)}
                Hits(k) == Count(mine, LAMBDA x : StatusCounter(x.status) = k)
                counters == [total |-> Len(mine) + Hits("total"),
                             completed |-> Hits("completed"),
                             pending |-> Hits("pending"),
                             inProgress |-> Hits("inProgress"),
                             totalHours |-> TotalHours(mine, 1) + Hits("totalHours")]
                data == [k \in DOMAIN counters \cup named |->
                            IF k \in DOMAIN counters THEN counters[k] ELSE "NaN"]
            IN  WithProperty(data, "completionRate",
                             IF data.total > 0 THEN RoundPercent(data.completed, data.total)
                                               ELSE 0)
    IN  [c \in {CategoryOf(tasks[i]) : i \in 1..Len(tasks)} |-> Data(c)]

\* ------------------------------------------------------------------------
\* Profile page (src/unnamed/part_000)
\* ------------------------------------------------------------------------
\* calculateDetailedStatistics at the instant clock: the general counts, the
\* counts by period and the completion rate
calculateDetailedStatistics(tasks, clock) ==
    LET totalTasks == Len(tasks)
        completedTasks == Count(tasks, LAMBDA x : x.status = "Completed")
        Since(x, days) == Has(x, "createdAt") /\ x.createdAt > DaysAgo(clock, days)
    IN  [totalTasks |-> totalTasks,
         completedTasks |-> completedTasks,
         pendingTasks |-> Count(tasks, LAMBDA x : x.status = "Pending"),
         inProgressTasks |-> Count(tasks, LAMBDA x : x.status = "In Progress"),
         overdueTasks |-> Count(tasks, LAMBDA x : /\ x.status # "Completed"
                                                  /\ Has(x, "dueDate") /\ x.dueDate < clock),
         completionRate |-> IF totalTasks > 0 THEN RoundPercent(completedTasks, totalTasks)
                                              ELSE 0,
         tasksLast30Days |-> Count(tasks, LAMBDA x : Since(x, 30)),
         tasksLast7Days |-> Count(tasks, LAMBDA x : Since(x, 7)),
         completedLast30Days |-> Count(tasks, LAMBDA x : Since(x, 30) /\ x.status = "Completed"),
         completedLast7Days |-> Count(tasks, LAMBDA x : Since(x, 7) /\ x.status = "Completed"),
         categoryStats |-> calculateCategoryStatistics(tasks)]

\* DOMContentLoaded of the profile page: loadCompleteUserData and
\* loadUserStatistics
LoadProfile(t) ==
    /\ page[t] = "profile" /\ phase[t] = "loading"
    /\ IF ~verifyAuthentication(lsSession)
       THEN GoTo(t, "index", NoValue)
       ELSE /\ phase' = [phase EXCEPT ![t] = "ready"]
            /\ UNCHANGED << page, urlEdit, dashboardState, tasksState, taskFormState, autoSaveTimer, draftLog,
                            rendered, rows, timer, console, loginEmail >>
            /\ LET u == loadCurrentUser(lsSession)
                   mine == Filter(lsTasks, LAMBDA x : VisibleTo(x, u.user))
               IN  IF u.threw
                   THEN /\ message' = [message EXCEPT ![t] = "Failed to load profile data."]
                        /\ UNCHANGED << currentUser, heap, shownStats >>
                   ELSE /\ currentUser' = [currentUser EXCEPT ![t] = u.user]
                        /\ heap' = [heap EXCEPT ![t] = mine]
                        /\ shownStats' = [shownStats EXCEPT ![t] =
                                            calculateDetailedStatistics(mine, now)]
                        /\ UNCHANGED message
    /\ UNCHANGED << now, ticks, regVars, lsDrafts, storeVars >>


\* ------------------------------------------------------------------------
\* Create / edit form (create-task.js)
\* ------------------------------------------------------------------------
\* What the user enters in the form (collectFormData's result).
FormInputs == {
    [title |-> "",           category |-> "Physics", status |-> "Pending"],
    [title |-> "Es",         category |-> "History", status |-> "Pending"],
    [title |-> "Essay",      category |-> "",        status |-> "Pending"],
    [title |-> "Lab report", category |-> "Physics", status |-> "In Progress"] }

\* The inputs the form marks as required.
RequiredInputs == {"title", "category"}

validateField(fieldName, value) ==
    CASE fieldName = "title" ->
            /\ value # ""
            /\ Len(value) >= MIN_TITLE_LENGTH
            /\ Len(value) <= MAX_TITLE_LENGTH
      [] fieldName = "category" -> value # ""
      [] OTHER -> TRUE

validateCompleteForm(fd) == \A f \in RequiredInputs : validateField(f, fd[f])

\* determineFormMode: the form state for the ?edit= parameter of the location
determineFormMode(fs, editTaskId) ==
    IF editTaskId # NoValue
    THEN [fs EXCEPT !.isEditing = TRUE, !.editingTaskId = editTaskId]
    ELSE [fs EXCEPT !.isEditing = FALSE]

\* loadTaskForEditing only writes a console line.
loadTaskForEditing(fs) == fs

\* the object saveTask builds from the form, whose priority is left at its
\* default; r is Math.random() of generateTaskId
taskToSave(fd, fs, user, clock, r) ==
    LET createdAt == IF fs.isEditing
                     THEN (IF Has(fs.currentTask, "createdAt")
                           THEN [createdAt |-> fs.currentTask.createdAt] ELSE EmptyObject)
                     ELSE [createdAt |-> clock]
    IN  [id |-> IF fs.isEditing THEN fs.editingTaskId ELSE generateTaskId(clock, r),
         title |-> fd.title, category |-> fd.category, priority |-> "Medium",
         status |-> fd.status, updatedAt |-> clock, userId |-> user.id] @@ createdAt

\* a saveTaskToStorage that adds the task when no stored task has its id
saveTaskToStorage_Upsert(existingTasks, taskData, fs) ==
    LET taskIndex == FindIndex(existingTasks, LAMBDA x : x.id = fs.editingTaskId)
    IN  IF fs.isEditing /\ taskIndex # 0
        THEN [threw |-> FALSE, tasks |-> [existingTasks EXCEPT ![taskIndex] = taskData]]
        ELSE [threw |-> FALSE, tasks |-> Append(existingTasks, taskData)]

\* saveTaskToStorage: whether it threw and the array it hands to setItem
saveTaskToStorage(existingTasks, taskData, fs) ==
    LET taskIndex == FindIndex(existingTasks, LAMBDA x : x.id = fs.editingTaskId)
    IN  IF fs.isEditing
        THEN (IF taskIndex # 0
              THEN [threw |-> FALSE, tasks |-> [existingTasks EXCEPT ![taskIndex] = taskData]]
              ELSE [threw |-> TRUE, tasks |-> existingTasks])
        ELSE [threw |-> FALSE, tasks |-> Append(existingTasks, taskData)]

\* DOMContentLoaded of the create-task page
LoadCreateTask(t) ==
    /\ page[t] = "create-task" /\ phase[t] = "loading"
    /\ IF ~verifyAuthentication(lsSession)
       THEN GoTo(t, "index", NoValue)
       ELSE /\ phase' = [phase EXCEPT ![t] = "ready"]
            /\ UNCHANGED << page, urlEdit, heap, dashboardState, tasksState, shownStats,
                            rendered, rows, timer, console, loginEmail, draftLog >>
            /\ LET u == loadCurrentUser(lsSession)
               IN  IF u.threw
                   THEN /\ message' = [message EXCEPT ![t] =
                                         "Failed to load task creation form."]
                        /\ UNCHANGED << currentUser, taskFormState, autoSaveTimer >>
                   ELSE /\ currentUser' = [currentUser EXCEPT ![t] = u.user]
                        /\ taskFormState' = [taskFormState EXCEPT ![t] =
                               loadTaskForEditing(determineFormMode(@, urlEdit[t]))]
                        /\ autoSaveTimer' = [autoSaveTimer EXCEPT ![t] = TRUE]
                        /\ UNCHANGED message
    /\ UNCHANGED << now, ticks, regVars, lsDrafts, storeVars >>

\* the key of the form's draft
draftKey(fs) ==
    IF fs.isEditing THEN "crudzaso_task_draft_" \o fs.editingTaskId
    ELSE "crudzaso_new_task_draft"

\* localStorage.setItem and removeItem on the draft keys
setItem(store, key, value) ==
    [k \in DOMAIN store \cup {key} |-> IF k = key THEN value ELSE store[k]]

removeItem(store, key) == [k \in DOMAIN store \ {key} |-> store[k]]

\* an input event of one of the form's inputs: markFormAsDirty (the field's
\* validation, which follows after a delay, changes only the field's message)
inputForm(t) ==
    /\ page[t] = "create-task" /\ phase[t] = "ready" /\ autoSaveTimer[t]
    /\ taskFormState' = [taskFormState EXCEPT ![t].isDirty = TRUE]
    /\ draftLog' = [draftLog EXCEPT ![t].inputSince = TRUE]
    /\ UNCHANGED << now, ticks, regVars, lsDrafts, storeVars, locVars, currentUser, heap,
                    dashboardState, tasksState, autoSaveTimer, domVars >>

\* the callback of the auto-save interval, with performAutoSave: fd is what
\* collectFormData reads, quota that localStorage.setItem throws
autoSaveTick(t, fd, quota) ==
    /\ page[t] = "create-task" /\ phase[t] = "ready" /\ autoSaveTimer[t]
    /\ draftLog[t].writes < MaxDraftWrites
    /\ LET fs == taskFormState[t]
           draft == [title |-> fd.title, category |-> fd.category, status |-> fd.status,
                     savedAt |-> now, isAutoSave |-> TRUE]
       IN  IF ~(fs.isDirty /\ fs.autoSaveEnabled)
           THEN /\ draftLog' = [draftLog EXCEPT ![t].inputSince = FALSE]
                /\ UNCHANGED << lsDrafts, taskFormState, console >>
           ELSE IF currentUser[t] = Null \/ quota
           THEN /\ console' = [console EXCEPT ![t] = "Auto-save failed"]
                /\ draftLog' = [draftLog EXCEPT ![t].inputSince = FALSE]
                /\ UNCHANGED << lsDrafts, taskFormState >>
           ELSE /\ lsDrafts' = setItem(lsDrafts, draftKey(fs), draft)
                /\ taskFormState' = [taskFormState EXCEPT ![t].lastSave = now]
                /\ draftLog' = [draftLog EXCEPT ![t] =
                                   [writes |-> @.writes + 1, autoSaved |-> TRUE,
                                    inputSince |-> FALSE]]
                /\ console' = [console EXCEPT ![t] = "Auto-saved successfully"]
    /\ UNCHANGED << now, ticks, regVars, storeVars, locVars, currentUser, heap, dashboardState,
                    tasksState, autoSaveTimer, shownStats, rendered, rows, timer, message,
                    loginEmail >>

\* the save button
saveTask(t, fd, r, quota) ==
    /\ page[t] = "create-task" /\ phase[t] = "ready"
    /\ taskFormState[t].isEditing \/ Len(lsTasks) < MaxTasks
    /\ LET fs == taskFormState[t]
           saved == saveTaskToStorage(lsTasks, taskToSave(fd, fs, currentUser[t], now, r), fs)
       IN  IF ~validateCompleteForm(fd)
           THEN /\ message' = [message EXCEPT ![t] =
                                 "Please correct the errors in the form before saving."]
                /\ UNCHANGED << lsTasks, lsDrafts, timer, console >>
           ELSE IF currentUser[t] = Null
           THEN /\ message' = [message EXCEPT ![t] = "Save Error: currentUser is null"]
                /\ console' = [console EXCEPT ![t] = "Error saving task"]
                /\ UNCHANGED << lsTasks, lsDrafts, timer >>
           ELSE IF saved.threw
           THEN /\ message' = [message EXCEPT ![t] = "Save Error: Task not found for editing"]
                /\ console' = [console EXCEPT ![t] = "Error saving task"]
                /\ UNCHANGED << lsTasks, lsDrafts, timer >>
           ELSE IF quota
           THEN /\ message' = [message EXCEPT ![t] = "Save Error: QuotaExceededError"]
                /\ console' = [console EXCEPT ![t] = "Error saving task"]
                /\ UNCHANGED << lsTasks, lsDrafts, timer >>
           ELSE /\ lsTasks' = saved.tasks
                /\ lsDrafts' = removeItem(lsDrafts, draftKey(fs))
                /\ console' = [console EXCEPT ![t] = "Task saved successfully! Redirecting..."]
                /\ timer' = [timer EXCEPT ![t] = "toTasks"]
                /\ UNCHANGED message
    /\ UNCHANGED << now, ticks, regVars, lsSession, lsEditingTaskId, locVars, scriptVars,
                    shownStats, rendered, rows, loginEmail >>

\* ------------------------------------------------------------------------
\* Registration page (register.js)
\* ------------------------------------------------------------------------
\* A stored user is a JSON object with id, name, email, password, role,
\* department, joinDate and registrationDate.

EmailExists == "This email is already registered. Try signing in instead."
CorrectErrors == "Please correct the highlighted errors before continuing."
SaveFailed == "Failed to save user data. Please try again."

\* What the user enters in the registration form.
RegisterInputs == {
    [name |-> "Ana", email |-> "ana@mail.com",   password |-> "Secret123", confirm |-> "Secret123"],
    [name |-> "Ana", email |-> " Ana@Mail.com ", password |-> "Secret123", confirm |-> "Secret123"],
    [name |-> "Bob", email |-> "bob@mail.com",   password |-> "Secret123", confirm |-> "Secret123"],
    [name |-> "B",   email |-> "bob@mail.com",   password |-> "Secret123", confirm |-> "Secret123"],
    [name |-> "Ana", email |-> "ana",            password |-> "Secret123", confirm |-> "Secret123"],
    [name |-> "Ana", email |-> "ana@mail.com",   password |-> "secret",    confirm |-> "secret"],
    [name |-> "Ana", email |-> "ana@mail.com",   password |-> "Secret123", confirm |-> "Secret124"] }

\* a getRegisterFormData that keeps the letter case of the email
getRegisterFormData_CaseSensitive(input) ==
    [name |-> Trim(input.name), email |-> Trim(input.email),
     password |-> input.password, confirmPassword |-> input.confirm]

getRegisterFormData(input) ==
    [name |-> Trim(input.name), email |-> ToLowerCase(Trim(input.email)),
     password |-> input.password, confirmPassword |-> input.confirm]

\* VALIDATION_PATTERNS.name (letters, spaces, ' and -, 2 to 50 of them) on the
\* names above
isValidName(name) == name \in {"Ana", "Bob"}

validateNameField(name) ==
    /\ name # ""
    /\ Len(name) >= NAME_MIN_LENGTH
    /\ Len(name) =< NAME_MAX_LENGTH
    /\ isValidName(name)

validateEmailField(value) ==
    LET email == ToLowerCase(Trim(value))
    IN  email # "" /\ isValidEmail(email)

\* a weak password is a warning, not an error
validatePasswordField(password) ==
    password # "" /\ Len(password) >= REGISTER_PASSWORD_MIN_LENGTH

\* the original password is read from the form's password field
validateConfirmPasswordField(confirmPassword, originalPassword) ==
    confirmPassword # "" /\ confirmPassword = originalPassword

validateRegisterForm(formData) ==
    /\ validateNameField(formData.name)
    /\ validateEmailField(formData.email)
    /\ validatePasswordField(formData.password)
    /\ validateConfirmPasswordField(formData.confirmPassword, formData.password)

\* existingUsers.some(user => user.email === email)
isEmailAlreadyRegistered(users, email) ==
    \E i \in 1..Len(users) : users[i].email = email

\* Date.now() + Math.random().toString(36).substr(2, 9): a number and a string
generateUserId(clock, r) == ToString(clock) \o "u" \o ToString(r)

\* the newUser of registerNewUser; a minute is the clock's unit
newUser(userData, clock, r) ==
    [id |-> generateUserId(clock, r), name |-> userData.name, email |-> userData.email,
     password |-> userData.password, role |-> "Student", department |-> "General",
     joinDate |-> clock \div 1440, registrationDate |-> clock]

\* saveUserToDatabase reads the collection again and writes it with the user
\* pushed; a setItem that throws is caught and gives null.
saveUserToDatabase(users, user, quota) ==
    IF quota THEN [users |-> users, saved |-> Null]
    ELSE [users |-> Append(users, user), saved |-> user]

\* DOMContentLoaded of the registration page: no authentication gate
LoadRegister(t) ==
    /\ page[t] = "register" /\ phase[t] \in {"closed", "loading"}
    /\ phase' = [phase EXCEPT ![t] = "ready"]
    /\ registration' = [registration EXCEPT ![t] = registration0]
    /\ UNCHANGED << now, ticks, lsUsers, lsDrafts, storeVars, page, urlEdit, scriptVars, domVars >>

\* submit of the registration form, up to the first await: the submit button
\* is disabled while a registration is processed
handleRegisterSubmit(t, input) ==
    /\ page[t] = "register" /\ phase[t] = "ready"
    /\ registration[t].pc = "idle"
    /\ LET formData == getRegisterFormData(input)
       IN  IF ~validateRegisterForm(formData)
           THEN /\ message' = [message EXCEPT ![t] = CorrectErrors]
                /\ console' = [console EXCEPT ![t] = "Form validation failed"]
                /\ registration' = [registration EXCEPT ![t] = [pc |-> "idle", input |-> input]]
           ELSE /\ registration' = [registration EXCEPT ![t] =
                        [pc |-> "checking", input |-> input, formData |-> formData]]
                /\ console' = [console EXCEPT ![t] = "Processing registration..."]
                /\ UNCHANGED message
    /\ UNCHANGED << now, ticks, lsUsers, lsDrafts, storeVars, locVars, scriptVars, shownStats, rendered, rows,
                    timer, loginEmail >>

\* registerNewUser after the delays: isEmailAlreadyRegistered reads the store
RegisterCheck(t) ==
    /\ page[t] = "register" /\ phase[t] = "ready"
    /\ registration[t].pc = "checking"
    /\ IF isEmailAlreadyRegistered(lsUsers, registration[t].formData.email)
       THEN /\ message' = [message EXCEPT ![t] = EmailExists]
            /\ console' = [console EXCEPT ![t] = "Registration failed"]
            /\ registration' = [registration EXCEPT ![t].pc = "idle"]
       ELSE /\ registration' = [registration EXCEPT ![t].pc = "saving"]
            /\ UNCHANGED << message, console >>
    /\ UNCHANGED << now, ticks, lsUsers, lsDrafts, storeVars, locVars, scriptVars, shownStats, rendered, rows,
                    timer, loginEmail >>

\* registerNewUser once the check has answered: the user is saved, and
\* handleSuccessfulRegistration creates the session and schedules the redirect
RegisterSave(t, r, quota) ==
    /\ page[t] = "register" /\ phase[t] = "ready"
    /\ registration[t].pc = "saving"
    /\ LET user == newUser(registration[t].formData, now, r)
           result == saveUserToDatabase(lsUsers, user, quota)
       IN  /\ lsUsers' = result.users
           /\ IF result.saved # Null
              THEN /\ message' = [message EXCEPT ![t] = "Welcome to CRUDZASO"]
                   /\ console' = [console EXCEPT ![t] = "User registered successfully"]
                   /\ lsSession' = createUserSession(result.saved, now)
                   /\ timer' = [timer EXCEPT ![t] = "toDashboard"]
              ELSE /\ message' = [message EXCEPT ![t] = SaveFailed]
                   /\ console' = [console EXCEPT ![t] = "Registration failed"]
                   /\ UNCHANGED << lsSession, timer >>
    /\ registration' = [registration EXCEPT ![t].pc = "idle"]
    /\ UNCHANGED << now, ticks, lsDrafts, lsTasks, lsEditingTaskId, locVars, scriptVars, shownStats,
                    rendered, rows, loginEmail >>

\* ------------------------------------------------------------------------
\* Timers: the callback of a tab's pending setTimeout runs
\* ------------------------------------------------------------------------
\* login page: window.location.href = CONFIG.REDIRECT_AFTER_LOGIN
RedirectToDashboard(t) ==
    /\ timer[t] = "toDashboard"
    /\ GoTo(t, "dashboard", NoValue)
    /\ UNCHANGED << now, ticks, regVars, lsDrafts, storeVars >>

\* create-task page: redirectToTasksList
RedirectToTasksList(t) ==
    /\ timer[t] = "toTasks"
    /\ GoTo(t, "tasks", NoValue)
    /\ UNCHANGED << now, ticks, regVars, lsDrafts, storeVars >>

\* dashboard: the renderTasksList that deleteTask delays by ANIMATION_DURATION
RenderTimeout(t) ==
    /\ timer[t] = "renderTasksList"
    /\ rendered' = [rendered EXCEPT ![t] = renderTasksList(dashboardState[t], heap[t])]
    /\ rows' = [rows EXCEPT ![t] = sortedTasks(dashboardState[t], heap[t])]
    /\ timer' = [timer EXCEPT ![t] = "none"]
    /\ UNCHANGED << now, ticks, regVars, lsDrafts, storeVars, locVars, scriptVars, shownStats, message,
                    console, loginEmail >>

\* ------------------------------------------------------------------------
\* The application: every handler, in every tab, on every input
\* ------------------------------------------------------------------------
Next ==
    \/ \E d \in ClockSteps : AdvanceClock(d)
    \/ \E t \in Tabs, target \in Pages : Navigate(t, target)
    \/ \E t \in Tabs : LoadIndex(t)
    \/ \E t \in Tabs, e \in LoginEmails, p \in LoginPasswords : handleLoginSubmit(t, e, p)
    \/ \E t \in Tabs : RedirectToDashboard(t)
    \/ \E t \in Tabs, rs \in SampleRandoms, quota \in BOOLEAN : LoadDashboard(t, rs, quota)
    \/ \E t \in Tabs, rs \in SampleRandoms, quota \in BOOLEAN : refreshDashboard(t, rs, quota)
    \/ \E t \in Tabs, quota \in BOOLEAN : \E id \in rendered[t] : toggleTaskStatus(t, id, quota)
    \/ \E t \in Tabs, confirmed, quota \in BOOLEAN :
          \E id \in rendered[t] : deleteTask(t, id, confirmed, quota)
    \/ \E t \in Tabs, filterType \in FilterTypes : filterTasks(t, filterType)
    \/ \E t \in Tabs : RenderTimeout(t)
    \/ \E t \in Tabs : \E id \in rendered[t] : editTaskFromDashboard(t, id)
    \/ \E t \in Tabs, rs \in SampleRandoms, sts \in [1..MaxSampleTasks -> Statuses],
          prs \in [1..MaxSampleTasks -> Priorities],
          ages \in [1..MaxSampleTasks -> SampleAgeDays],
          dues \in [1..MaxSampleTasks -> SampleDueDays], quota \in BOOLEAN :
          LoadTasks(t, rs, sts, prs, ages, dues, quota)
    \/ \E t \in Tabs : \E id \in rendered[t] : editTask(t, id)
    \/ \E t \in Tabs : \E id \in rendered[t] : deleteTaskOnTasksPage(t, id)
    \/ \E t \in Tabs, searchTerm \in SearchTerms : performSearch(t, searchTerm)
    \/ \E t \in Tabs : LoadProfile(t)
    \/ \E t \in Tabs : LoadCreateTask(t)
    \/ \E t \in Tabs : inputForm(t)
    \/ \E t \in Tabs, fd \in FormInputs, quota \in BOOLEAN : autoSaveTick(t, fd, quota)
    \/ \E t \in Tabs, fd \in FormInputs, r \in RandomSuffixes, quota \in BOOLEAN :
          saveTask(t, fd, r, quota)
    \/ \E t \in Tabs : RedirectToTasksList(t)
    \/ \E t \in Tabs : Navigate(t, "register")
    \/ \E t \in Tabs : LoadRegister(t)
    \/ \E t \in Tabs, input \in RegisterInputs : handleRegisterSubmit(t, input)
    \/ \E t \in Tabs : RegisterCheck(t)
    \/ \E t \in Tabs, r \in RandomSuffixes, quota \in BOOLEAN : RegisterSave(t, r, quota)

Spec == Init /\ [][Next]_vars

\* ------------------------------------------------------------------------
\* Scenarios: the application restricted to some pages, tabs and inputs.  Every
\* step of a scenario is a step of Next.
\* ------------------------------------------------------------------------
Student == DEMO_USERS[1]

\* Math.random() gives every task of a seeding the same status, priority, age
\* or due date.
SamplesOf(x) == [i \in 1..MaxSampleTasks |-> x]

\* One tab and the session: the login form on every input, the clock, and the
\* authentication gate of every page.
NextLogin ==
    \/ AdvanceClock(SESSION_DURATION + 1)
    \/ \E target \in Pages : Navigate("A", target)
    \/ LoadIndex("A")
    \/ \E e \in LoginEmails, p \in LoginPasswords : handleLoginSubmit("A", e, p)
    \/ RedirectToDashboard("A")
    \/ \E rs \in SampleRandoms : LoadDashboard("A", rs, FALSE)
    \/ \E rs \in SampleRandoms : LoadTasks("A", rs, SamplesOf("Pending"), SamplesOf("Medium"),
                                           SamplesOf(0), SamplesOf(19), FALSE)
    \/ LoadProfile("A")
    \/ LoadCreateTask("A")

SpecLogin == Init /\ [][NextLogin]_vars

\* What a page may find under the session key: nothing, a string that is not
\* JSON, a session object without expiry, or a session a login wrote earlier.
StoredSessions ==
    {Null, CorruptSession, [userId |-> Student.id, email |-> Student.email]}
    \cup {createUserSession(Student, c) : c \in {-SESSION_DURATION, 0}}

InitStored ==
    /\ now = 0
    /\ ticks = 0
    /\ lsSession \in StoredSessions
    /\ lsTasks = <<>>
    /\ lsEditingTaskId = NoValue
    /\ page = [t \in Tabs |-> "index"]
    /\ phase = [t \in Tabs |-> "closed"]
    /\ urlEdit = [t \in Tabs |-> NoValue]
    /\ currentUser = [t \in Tabs |-> Null]
    /\ heap = [t \in Tabs |-> <<>>]
    /\ dashboardState = [t \in Tabs |-> dashboardState0]
    /\ tasksState = [t \in Tabs |-> tasksState0]
    /\ taskFormState = [t \in Tabs |-> taskFormState0]
    /\ autoSaveTimer = [t \in Tabs |-> FALSE]
    /\ draftLog = [t \in Tabs |-> draftLog0]
    /\ shownStats = [t \in Tabs |-> Null]
    /\ rendered = [t \in Tabs |-> {}]
    /\ rows = [t \in Tabs |-> <<>>]
    /\ timer = [t \in Tabs |-> "none"]
    /\ message = [t \in Tabs |-> NoValue]
    /\ console = [t \in Tabs |-> NoValue]
    /\ loginEmail = [t \in Tabs |-> ""]
    /\ lsUsers = <<>>
    /\ lsDrafts = EmptyObject
    /\ registration = [t \in Tabs |-> registration0]

SpecSession == InitStored /\ [][NextLogin]_vars

\* Math.random() gives each generated id of a seeding its own suffix.
DistinctRandoms == [i \in 1..MaxSampleTasks |-> i]

\* One tab on the dashboard, with the failures of the store's writes.
NextDashboard ==
    \/ \E d \in {1, STATISTICS_CACHE_DURATION} : AdvanceClock(d)
    \/ LoadIndex("A")
    \/ handleLoginSubmit("A", Student.email, Student.password)
    \/ RedirectToDashboard("A")
    \/ \E quota \in BOOLEAN : LoadDashboard("A", DistinctRandoms, quota)
    \/ \E quota \in BOOLEAN : refreshDashboard("A", DistinctRandoms, quota)
    \/ \E quota \in BOOLEAN : \E id \in rendered["A"] : toggleTaskStatus("A", id, quota)
    \/ \E confirmed, quota \in BOOLEAN :
          \E id \in rendered["A"] : deleteTask("A", id, confirmed, quota)
    \/ RenderTimeout("A")

SpecDashboard == Init /\ [][NextDashboard]_vars

\* Two tabs of one user on the dashboard: tab A comes from the login page,
\* tab B is opened on the dashboard; neither reloads.
NextTabs ==
    \/ LoadIndex("A")
    \/ handleLoginSubmit("A", Student.email, Student.password)
    \/ RedirectToDashboard("A")
    \/ phase["B"] = "closed" /\ Navigate("B", "dashboard")
    \/ \E t \in Tabs : LoadDashboard(t, DistinctRandoms, FALSE)
    \/ \E t \in Tabs : \E id \in rendered[t] : toggleTaskStatus(t, id, FALSE)
    \/ \E t \in Tabs : \E id \in rendered[t] : deleteTask(t, id, TRUE, FALSE)
    \/ \E t \in Tabs : RenderTimeout(t)

SpecTabs == Init /\ [][NextTabs]_vars

\* Editing: tab A goes from the dashboard or the tasks page to the form and
\* saves; tab B, opened on the dashboard, deletes tasks meanwhile.
NextEdit ==
    \/ LoadIndex("A")
    \/ handleLoginSubmit("A", Student.email, Student.password)
    \/ RedirectToDashboard("A")
    \/ \E target \in {"dashboard", "tasks"} : Navigate("A", target)
    \/ phase["B"] = "closed" /\ Navigate("B", "dashboard")
    \/ \E t \in Tabs : LoadDashboard(t, DistinctRandoms, FALSE)
    \/ \E id \in rendered["A"] : editTaskFromDashboard("A", id)
    \/ LoadTasks("A", DistinctRandoms, SamplesOf("Pending"), SamplesOf("Medium"),
                 SamplesOf(0), SamplesOf(19), FALSE)
    \/ \E id \in rendered["A"] : editTask("A", id)
    \/ LoadCreateTask("A")
    \/ \E fd \in FormInputs, quota \in BOOLEAN : saveTask("A", fd, MaxRandom, quota)
    \/ RedirectToTasksList("A")
    \/ \E id \in rendered["B"] : deleteTask("B", id, TRUE, FALSE)
    \/ RenderTimeout("B")

SpecEdit == Init /\ [][NextEdit]_vars

\* Two tabs on the registration page: each submits the form on every input,
\* and the two registrations interleave at their awaits.
NextRegister ==
    \/ \E t \in Tabs : phase[t] = "closed" /\ Navigate(t, "register")
    \/ \E t \in Tabs : LoadRegister(t)
    \/ \E t \in Tabs, input \in RegisterInputs : handleRegisterSubmit(t, input)
    \/ \E t \in Tabs : RegisterCheck(t)
    \/ \E t \in Tabs, quota \in BOOLEAN :
          Len(lsUsers) < MaxUsers /\ RegisterSave(t, MaxRandom, quota)
    \/ \E t \in Tabs : RedirectToDashboard(t)

SpecRegister == Init /\ [][NextRegister]_vars


\* Every tab closed on the login page, no script run yet.
InitTabs ==
    /\ page = [t \in Tabs |-> "index"]
    /\ phase = [t \in Tabs |-> "closed"]
    /\ urlEdit = [t \in Tabs |-> NoValue]
    /\ currentUser = [t \in Tabs |-> Null]
    /\ heap = [t \in Tabs |-> <<>>]
    /\ dashboardState = [t \in Tabs |-> dashboardState0]
    /\ tasksState = [t \in Tabs |-> tasksState0]
    /\ taskFormState = [t \in Tabs |-> taskFormState0]
    /\ autoSaveTimer = [t \in Tabs |-> FALSE]
    /\ draftLog = [t \in Tabs |-> draftLog0]
    /\ shownStats = [t \in Tabs |-> Null]
    /\ rendered = [t \in Tabs |-> {}]
    /\ rows = [t \in Tabs |-> <<>>]
    /\ timer = [t \in Tabs |-> "none"]
    /\ message = [t \in Tabs |-> NoValue]
    /\ console = [t \in Tabs |-> NoValue]
    /\ loginEmail = [t \in Tabs |-> ""]
    /\ registration = [t \in Tabs |-> registration0]

\* The owner a stored task names: one of two users, or none (no userId).
Owners == {DEMO_USERS[1].id, DEMO_USERS[2].id, NoValue}

\* a task as saveTask or a seeding stored it, without userId if owner is none
StoredTask(i, owner, status) ==
    LET task == [id |-> "task_" \o ToString(i), title |-> "Assignment " \o ToString(i),
                 category |-> CategoryNames[i], priority |-> "Medium", status |-> status,
                 createdAt |-> 0, updatedAt |-> 0]
    IN  IF owner = NoValue THEN task
        ELSE [f \in DOMAIN task \cup {"userId"} |-> IF f = "userId" THEN owner ELSE task[f]]

\* The collections of up to MaxTasks stored tasks, of every ownership.
OwnedCollections ==
    UNION {{[i \in 1..n |-> StoredTask(i, owners[i], "Pending")] : owners \in [1..n -> Owners]}
           : n \in 0..MaxTasks}

\* A logged-in user, one of two, finds a collection that several users and
\* earlier versions of the application wrote.
InitOwners ==
    /\ now = 0
    /\ ticks = 0
    /\ lsSession \in {createUserSession(DEMO_USERS[i], 0) : i \in 1..2}
    /\ lsTasks \in OwnedCollections
    /\ lsEditingTaskId = NoValue
    /\ lsUsers = <<>>
    /\ lsDrafts = EmptyObject
    /\ InitTabs

\* One tab loads the dashboard, the tasks page and the profile page.
NextOwners ==
    \/ \E target \in {"dashboard", "tasks", "profile"} : Navigate("A", target)
    \/ \E quota \in BOOLEAN : LoadDashboard("A", DistinctRandoms, quota)
    \/ \E quota \in BOOLEAN :
          LoadTasks("A", DistinctRandoms, SamplesOf("Pending"), SamplesOf("Medium"),
                    SamplesOf(0), SamplesOf(19), quota)
    \/ LoadProfile("A")

SpecOwners == InitOwners /\ [][NextOwners]_vars

\* Status, priority and due date (if any) of the tasks sorted.
SortKeys == {
    [status |-> "Completed", priority |-> "High"],
    [status |-> "Pending",   priority |-> "Low"],
    [status |-> "Pending",   priority |-> "Medium"],
    [status |-> "Pending",   priority |-> "High"],
    [status |-> "Pending",   priority |-> "High",   dueDate |-> 1 * 1440],
    [status |-> "Pending",   priority |-> "High",   dueDate |-> 3 * 1440],
    [status |-> "Pending",   priority |-> "High",   dueDate |-> 5 * 1440] }

\* a task the form stored: the due date is optional
SortTask(i, key) ==
    LET task == WithProperty(StoredTask(i, Student.id, key.status), "priority", key.priority)
    IN  IF Has(key, "dueDate") THEN WithProperty(task, "dueDate", key.dueDate) ELSE task

SortCollections ==
    UNION {{[i \in 1..n |-> SortTask(i, keys[i])] : keys \in [1..n -> SortKeys]}
           : n \in 0..MaxSortTasks}

\* The student is logged in and the store holds tasks of every status,
\* priority and due date.
InitSort ==
    /\ now = 0
    /\ ticks = 0
    /\ lsSession = createUserSession(Student, 0)
    /\ lsTasks \in SortCollections
    /\ lsEditingTaskId = NoValue
    /\ lsUsers = <<>>
    /\ lsDrafts = EmptyObject
    /\ InitTabs

\* One tab loads and refreshes the dashboard, which renders the sorted list.
NextSort ==
    \/ Navigate("A", "dashboard")
    \/ LoadDashboard("A", DistinctRandoms, FALSE)
    \/ refreshDashboard("A", DistinctRandoms, FALSE)

SpecSort == InitSort /\ [][NextSort]_vars

\* ------------------------------------------------------------------------
\* Scenario: search, filters and pages of the tasks page
\* ------------------------------------------------------------------------
MaxQueryTasks == 12    \* the largest stored collection the tasks page lists
MaxPage == 3           \* the largest page number the page is left on

QueryTitles == << "Physics lab report", "Essay draft", "LAB safety quiz", "Reading list" >>
QueryStatuses == << "Pending", "In Progress", "Completed" >>
QueryPriorities == << "Low", "Medium", "High" >>

\* a task as create-task stores it; description, assignee and tags differ
\* from task to task
QueryTask(i) ==
    LET base == [id |-> "task_" \o ToString(i),
                 title |-> QueryTitles[(i % 4) + 1],
                 category |-> CategoryNames[(i % 3) + 1],
                 priority |-> QueryPriorities[((i \div 3) % 3) + 1],
                 status |-> QueryStatuses[((i \div 2) % 3) + 1],
                 assignee |-> IF i % 5 = 0 THEN "Sarah Chen" ELSE "Alex Morgan",
                 tags |-> IF i % 4 = 2 THEN << "exam", "Urgent" >> ELSE << >>,
                 createdAt |-> 0, updatedAt |-> 0, userId |-> Student.id]
    IN  IF i % 2 = 0 THEN WithProperty(base, "description", "Bring the lab notebook")
                     ELSE base

QueryCollections == {[i \in 1..n |-> QueryTask(i)] : n \in {1, 3, MaxQueryTasks}}

\* values of tasksState.activeFilters.status, .category and .priority
StatusFilters == {"all", "Pending", "In Progress", "in-progress", "COMPLETED"}
CategoryFilters == {"all", "Physics", "physics"}
PriorityFilters == {"all", "High"}

\* The student's tasks page has loaded the stored tasks and shows their first
\* page; the filters and the page number hold the values that the next
\* applyFiltersAndSorting reads.
InitQuery ==
    /\ now = 0
    /\ ticks = 0
    /\ lsSession = createUserSession(Student, 0)
    /\ lsTasks \in QueryCollections
    /\ lsEditingTaskId = NoValue
    /\ lsUsers = <<>>
    /\ lsDrafts = EmptyObject
    /\ page = [t \in Tabs |-> IF t = "A" THEN "tasks" ELSE "index"]
    /\ phase = [t \in Tabs |-> IF t = "A" THEN "ready" ELSE "closed"]
    /\ urlEdit = [t \in Tabs |-> NoValue]
    /\ currentUser = [t \in Tabs |-> IF t = "A" THEN loadCurrentUser(lsSession).user ELSE Null]
    /\ heap = [t \in Tabs |-> IF t = "A" THEN lsTasks ELSE <<>>]
    /\ dashboardState = [t \in Tabs |-> dashboardState0]
    /\ \E status \in StatusFilters, category \in CategoryFilters, priority \in PriorityFilters,
          currentPage \in 1..MaxPage :
          tasksState = [t \in Tabs |->
              IF t = "A"
              THEN [tasksState0 EXCEPT
                       !.allTasks = [i \in 1..Len(lsTasks) |-> i],
                       !.filteredTasks = [i \in 1..Len(lsTasks) |-> i],
                       !.totalPages = (Len(lsTasks) + tasksState0.tasksPerPage - 1)
                                          \div tasksState0.tasksPerPage,
                       !.currentPage = currentPage,
                       !.activeFilters = [search |-> "", category |-> category,
                                          priority |-> priority, status |-> status]]
              ELSE tasksState0]
    /\ taskFormState = [t \in Tabs |-> taskFormState0]
    /\ autoSaveTimer = [t \in Tabs |-> FALSE]
    /\ draftLog = [t \in Tabs |-> draftLog0]
    /\ shownStats = [t \in Tabs |-> Null]
    /\ rows = [t \in Tabs |->
                 IF t = "A"
                 THEN [i \in 1..Min(Len(lsTasks), tasksState0.tasksPerPage) |-> lsTasks[i].id]
                 ELSE <<>>]
    /\ rendered = [t \in Tabs |-> Ids(rows[t])]
    /\ timer = [t \in Tabs |-> "none"]
    /\ message = [t \in Tabs |-> NoValue]
    /\ console = [t \in Tabs |-> NoValue]
    /\ loginEmail = [t \in Tabs |-> ""]
    /\ registration = [t \in Tabs |-> registration0]

\* One tab searches, and reloads the page.
NextQuery ==
    \/ \E searchTerm \in SearchTerms : performSearch("A", searchTerm)
    \/ Navigate("A", "tasks")
    \/ LoadTasks("A", DistinctRandoms, SamplesOf("Pending"), SamplesOf("Medium"),
                 SamplesOf(0), SamplesOf(19), FALSE)

SpecQuery == InitQuery /\ [][NextQuery]_vars

\* ------------------------------------------------------------------------
\* Scenario: the statistics of the dashboard and of the profile page
\* ------------------------------------------------------------------------
MaxStatTasks == 3      \* the largest stored collection the statistics count

\* status, priority and dates (in days from the clock's start) of a stored
\* task; a task without due date has no dueDate property; the last one
\* belongs to another user
StatKeys == {
    [status |-> "Completed",   priority |-> "High",   createdAt |-> -10, updatedAt |-> -3,
     dueDate |-> -5, userId |-> "1"],
    [status |-> "Completed",   priority |-> "Low",    createdAt |-> -20, updatedAt |-> -10,
     userId |-> "1"],
    [status |-> "Completed",   priority |-> "Medium", createdAt |-> -3,  updatedAt |-> -1,
     dueDate |-> 2, userId |-> "1"],
    [status |-> "Pending",     priority |-> "High",   createdAt |-> -3,  updatedAt |-> -3,
     dueDate |-> -1, userId |-> "1"],
    [status |-> "Pending",     priority |-> "Medium", createdAt |-> -10, updatedAt |-> -10,
     dueDate |-> 5, userId |-> "1"],
    [status |-> "In Progress", priority |-> "Low",    createdAt |-> -20, updatedAt |-> -1,
     userId |-> "1"],
    [status |-> "Pending",     priority |-> "Low",    createdAt |-> -3,  updatedAt |-> -3,
     userId |-> "2"] }

StatTask(i, key) ==
    LET task == [id |-> "task_" \o ToString(i), title |-> "Assignment " \o ToString(i),
                 category |-> CategoryNames[i], status |-> key.status,
                 priority |-> key.priority, createdAt |-> key.createdAt * 1440,
                 updatedAt |-> key.updatedAt * 1440, userId |-> key.userId]
    IN  IF Has(key, "dueDate") THEN WithProperty(task, "dueDate", key.dueDate * 1440) ELSE task

StatCollections ==
    UNION {{[i \in 1..n |-> StatTask(i, keys[i])] : keys \in [1..n -> StatKeys]}
           : n \in 0..MaxStatTasks}

\* The student is logged in and the store holds tasks of every status, age
\* and due date.
InitStats ==
    /\ now = 0
    /\ ticks = 0
    /\ lsSession = createUserSession(Student, 0)
    /\ lsTasks \in StatCollections
    /\ lsEditingTaskId = NoValue
    /\ lsUsers = <<>>
    /\ lsDrafts = EmptyObject
    /\ InitTabs

\* One tab loads the dashboard and the profile page, which compute the
\* statistics.
NextStats ==
    \/ \E target \in {"dashboard", "profile"} : Navigate("A", target)
    \/ \E quota \in BOOLEAN : LoadDashboard("A", DistinctRandoms, quota)
    \/ \E quota \in BOOLEAN : refreshDashboard("A", DistinctRandoms, quota)
    \/ LoadProfile("A")

SpecStats == InitStats /\ [][NextStats]_vars

\* ------------------------------------------------------------------------
\* Scenario: due dates around the current day
\* ------------------------------------------------------------------------
MaxDueTasks == 2       \* the largest stored collection of tasks with due dates

\* status and due date (in days from the clock's start, the start of a day)
\* of a stored task; a task without due date has no dueDate property
DueKeys ==
    {[status |-> st] : st \in Statuses}
    \cup {[status |-> st, dueDate |-> d] : st \in Statuses, d \in {-1, 0, 1}}

DueTask(i, key) ==
    LET task == [id |-> "task_" \o ToString(i), title |-> "Assignment " \o ToString(i),
                 category |-> CategoryNames[i], status |-> key.status,
                 priority |-> "Medium", createdAt |-> 0, updatedAt |-> 0,
                 userId |-> Student.id]
    IN  IF Has(key, "dueDate") THEN WithProperty(task, "dueDate", key.dueDate * 1440) ELSE task

DueCollections ==
    UNION {{[i \in 1..n |-> DueTask(i, keys[i])] : keys \in [1..n -> DueKeys]}
           : n \in 1..MaxDueTasks}

\* how far into the day the clock moves: a minute, half a day
TimesOfDay == {1, 720}

\* The student is logged in at the start of a day and the store holds tasks
\* due the day before, this day, the day after, or never.
InitDue ==
    /\ now = 0
    /\ ticks = 0
    /\ lsSession = createUserSession(Student, 0)
    /\ lsTasks \in DueCollections
    /\ lsEditingTaskId = NoValue
    /\ lsUsers = <<>>
    /\ lsDrafts = EmptyObject
    /\ InitTabs

\* The day goes on, and one tab loads the pages that tell overdue tasks.
NextDue ==
    \/ \E d \in TimesOfDay : AdvanceClock(d)
    \/ \E target \in {"dashboard", "profile", "tasks"} : Navigate("A", target)
    \/ LoadDashboard("A", DistinctRandoms, FALSE)
    \/ LoadProfile("A")
    \/ LoadTasks("A", DistinctRandoms, SamplesOf("Pending"), SamplesOf("Medium"),
                 SamplesOf(0), SamplesOf(19), FALSE)

SpecDue == InitDue /\ [][NextDue]_vars

\* ------------------------------------------------------------------------
\* Scenario: tasks created at the edges of the 7-day and 30-day periods
\* ------------------------------------------------------------------------
MaxPeriodTasks == 2    \* the largest stored collection of tasks of known age

\* createdAt of a stored task, in minutes from the clock's start: 31 days
\* before, exactly 30 days before, a minute later, exactly 7 days before, a
\* minute later, a minute before the start, and the start
CreationTimes ==
    {-31 * 1440, -30 * 1440, -30 * 1440 + 1, -7 * 1440, -7 * 1440 + 1, -1, 0}

PeriodTask(i, createdAt) ==
    [id |-> "task_" \o ToString(i), title |-> "Assignment " \o ToString(i),
     category |-> CategoryNames[i], status |-> "Pending", priority |-> "Medium",
     createdAt |-> createdAt, updatedAt |-> createdAt, userId |-> Student.id]

PeriodCollections ==
    UNION {{[i \in 1..n |-> PeriodTask(i, times[i])] : times \in [1..n -> CreationTimes]}
           : n \in 0..MaxPeriodTasks}

\* The student is logged in and the store holds tasks of those ages.
InitPeriod ==
    /\ now = 0
    /\ ticks = 0
    /\ lsSession = createUserSession(Student, 0)
    /\ lsTasks \in PeriodCollections
    /\ lsEditingTaskId = NoValue
    /\ lsUsers = <<>>
    /\ lsDrafts = EmptyObject
    /\ InitTabs

\* One tab loads the profile page, before or after a minute has passed.
NextPeriod ==
    \/ AdvanceClock(1)
    \/ Navigate("A", "profile")
    \/ LoadProfile("A")

SpecPeriod == InitPeriod /\ [][NextPeriod]_vars

\* ------------------------------------------------------------------------
\* Scenario: the drafts of the create-task form
\* ------------------------------------------------------------------------
\* The student is logged in and the store holds one task to edit.
InitDraft ==
    /\ now = 0
    /\ ticks = 0
    /\ lsSession = createUserSession(Student, 0)
    /\ lsTasks = << StoredTask(1, Student.id, "Pending") >>
    /\ lsEditingTaskId = NoValue
    /\ lsUsers = <<>>
    /\ lsDrafts = EmptyObject
    /\ InitTabs

\* what the form holds in this scenario: nothing valid, or a complete task
DraftInputs == {fd \in FormInputs : fd.title \in {"", "Lab report"}}

\* One tab opens the form for a new task or for the stored one, types, saves,
\* and is redirected, while the form's auto-save interval runs; all of it
\* within one minute of the clock.
NextDraft ==
    \/ \E target \in {"tasks", "create-task"} : Navigate("A", target)
    \/ LoadTasks("A", DistinctRandoms, SamplesOf("Pending"), SamplesOf("Medium"),
                 SamplesOf(0), SamplesOf(19), FALSE)
    \/ \E id \in rendered["A"] : editTask("A", id)
    \/ LoadCreateTask("A")
    \/ inputForm("A")
    \/ \E fd \in DraftInputs, quota \in BOOLEAN : autoSaveTick("A", fd, quota)
    \/ \E fd \in DraftInputs : saveTask("A", fd, MaxRandom, FALSE)
    \/ RedirectToTasksList("A")

SpecDraft == InitDraft /\ [][NextDraft]_vars

\* ------------------------------------------------------------------------
\* Scenario: the creation of tasks
\* ------------------------------------------------------------------------
\* The student is logged in and the store holds no task.
InitCreate ==
    /\ now = 0
    /\ ticks = 0
    /\ lsSession = createUserSession(Student, 0)
    /\ lsTasks = <<>>
    /\ lsEditingTaskId = NoValue
    /\ lsUsers = <<>>
    /\ lsDrafts = EmptyObject
    /\ InitTabs

\* One tab creates tasks: the dashboard seeds the demonstration tasks and the
\* form saves new ones, with every outcome of Math.random().
NextCreate ==
    \/ AdvanceClock(1)
    \/ \E target \in {"dashboard", "create-task"} : Navigate("A", target)
    \/ \E rs \in SampleRandoms : LoadDashboard("A", rs, FALSE)
    \/ LoadCreateTask("A")
    \/ \E fd \in FormInputs, r \in RandomSuffixes : saveTask("A", fd, r, FALSE)
    \/ RedirectToTasksList("A")

SpecCreate == InitCreate /\ [][NextCreate]_vars

\* ------------------------------------------------------------------------
\* Scenario: the dashboard on a store that several users share
\* ------------------------------------------------------------------------
\* One tab loads the dashboard and toggles and deletes the tasks it lists.
NextShared ==
    \/ Navigate("A", "dashboard")
    \/ LoadDashboard("A", DistinctRandoms, FALSE)
    \/ \E id \in rendered["A"] : toggleTaskStatus("A", id, FALSE)
    \/ \E id \in rendered["A"] : deleteTask("A", id, TRUE, FALSE)
    \/ RenderTimeout("A")

SpecShared == InitOwners /\ [][NextShared]_vars

\* ------------------------------------------------------------------------
\* Scenario: the filter buttons of the dashboard
\* ------------------------------------------------------------------------
MaxFilterTasks == 2    \* the largest stored collection the filter buttons select from

\* The collections of up to MaxFilterTasks tasks of the student, of every status.
FilterCollections ==
    UNION {{[i \in 1..n |-> StoredTask(i, Student.id, sts[i])] : sts \in [1..n -> Statuses]}
           : n \in 1..MaxFilterTasks}

\* The student is logged in and the store holds tasks of every status.
InitFilter ==
    /\ now = 0
    /\ ticks = 0
    /\ lsSession = createUserSession(Student, 0)
    /\ lsTasks \in FilterCollections
    /\ lsEditingTaskId = NoValue
    /\ lsUsers = <<>>
    /\ lsDrafts = EmptyObject
    /\ InitTabs

\* One tab on the dashboard: the filter buttons, the toggles, the deletes and
\* the refreshes.
NextFilter ==
    \/ Navigate("A", "dashboard")
    \/ LoadDashboard("A", DistinctRandoms, FALSE)
    \/ \E filterType \in FilterTypes : filterTasks("A", filterType)
    \/ \E id \in rendered["A"] : toggleTaskStatus("A", id, FALSE)
    \/ \E id \in rendered["A"] : deleteTask("A", id, TRUE, FALSE)
    \/ refreshDashboard("A", DistinctRandoms, FALSE)
    \/ RenderTimeout("A")

SpecFilter == InitFilter /\ [][NextFilter]_vars

\* ------------------------------------------------------------------------
\* Properties of editing and saving
\* ------------------------------------------------------------------------
IdCount(tasks, taskId) == Cardinality({i \in 1..Len(tasks) : tasks[i].id = taskId})

FormReady(t) == page[t] = "create-task" /\ phase[t] = "ready"

\* the form of tab t is in edit mode for a task the store does not hold
EditTargetMissing(t) ==
    /\ FormReady(t)
    /\ taskFormState[t].isEditing
    /\ IdCount(lsTasks, taskFormState[t].editingTaskId) = 0

SaveErrors == { "Please correct the errors in the form before saving.",
                "Save Error: currentUser is null",
                "Save Error: Task not found for editing",
                "Save Error: QuotaExceededError" }

\* C1: a save in edit mode whose editingTaskId matches no stored task always
\* fails with an error shown to the user, schedules no redirect and leaves the
\* stored collection as it was.
C1_EditOfMissingTaskFails ==
    [][\A t \in Tabs, fd \in FormInputs, r \in RandomSuffixes, quota \in BOOLEAN :
          (EditTargetMissing(t) /\ saveTask(t, fd, r, quota))
             => /\ lsTasks' = lsTasks
                /\ message'[t] \in SaveErrors
                /\ timer'[t] = timer[t]]_vars

\* C1: some tab saved an edit of a task the store no longer holds, with valid
\* input, and got the not-found error
C1_Witness ==
    \E t \in Tabs : /\ EditTargetMissing(t)
                    /\ Len(lsTasks) > 0
                    /\ message[t] = "Save Error: Task not found for editing"

\* a save of tab t, on input fd, that reaches setItem and writes
SaveWrites(t, fd, r) ==
    /\ saveTask(t, fd, r, FALSE)
    /\ validateCompleteForm(fd)
    /\ currentUser[t] # Null
    /\ ~saveTaskToStorage(lsTasks, taskToSave(fd, taskFormState[t], currentUser[t], now, r),
                          taskFormState[t]).threw

SameProperty(a, b, f) == (Has(a, f) <=> Has(b, f)) /\ (Has(a, f) => a[f] = b[f])

\* the task after an update, against the task before it
KeepsIdentity(before, after, clock) ==
    /\ after.id = before.id
    /\ SameProperty(before, after, "createdAt")
    /\ SameProperty(before, after, "userId")
    /\ after.updatedAt = clock

\* C2: every update of an existing task - a save of the form in edit mode, a
\* toggle of the status on the dashboard - leaves the task's id, createdAt and
\* userId as they were and sets its updatedAt to the time of the update.
C2_UpdateKeepsIdentity ==
    [][\A t \in Tabs :
          /\ \A fd \in FormInputs, r \in RandomSuffixes :
                (SaveWrites(t, fd, r) /\ taskFormState[t].isEditing)
                   => LET i == FindIndex(lsTasks,
                                         LAMBDA x : x.id = taskFormState[t].editingTaskId)
                      IN  /\ Len(lsTasks') = Len(lsTasks)
                          /\ KeepsIdentity(lsTasks[i], lsTasks'[i], now)
          /\ \A id \in rendered[t] :
                (toggleTaskStatus(t, id, FALSE) /\ FindTask(dashboardState[t], heap[t], id) # 0)
                   => LET ref == dashboardState[t].tasks[FindTask(dashboardState[t], heap[t], id)]
                      IN  KeepsIdentity(heap[t][ref], heap'[t][ref], now)]_vars

\* the task the user of tab t asked to edit: the ?edit= parameter the tasks page
\* passes, or the id the dashboard left under editing_task_id
EditTarget(t) == IF urlEdit[t] # NoValue THEN urlEdit[t] ELSE lsEditingTaskId

\* C3: when the user edits a stored task T - from the dashboard or from the
\* tasks page - and saves, the collection keeps its size and holds exactly one
\* task with T's id, which carries the fields the user entered.
C3_EditReplacesInPlace ==
    [][\A t \in Tabs, fd \in FormInputs, r \in RandomSuffixes :
          (/\ FormReady(t)
           /\ EditTarget(t) # NoValue
           /\ IdCount(lsTasks, EditTarget(t)) = 1
           /\ SaveWrites(t, fd, r))
             => /\ Len(lsTasks') = Len(lsTasks)
                /\ IdCount(lsTasks', EditTarget(t)) = 1
                /\ \A i \in 1..Len(lsTasks') :
                      lsTasks'[i].id = EditTarget(t)
                         => /\ lsTasks'[i].title = fd.title
                            /\ lsTasks'[i].category = fd.category
                            /\ lsTasks'[i].status = fd.status]_vars

\* ------------------------------------------------------------------------
\* Properties of the dashboard's mutations
\* ------------------------------------------------------------------------
\* the dashboard of tab t holds a task with this id
Holds(t, taskId) == FindTask(dashboardState[t], heap[t], taskId) # 0

\* the tab's collection as JSON.stringify(dashboardState.tasks) gives it
InMemory(t) ==
    [i \in 1..Len(dashboardState[t].tasks) |-> heap[t][dashboardState[t].tasks[i]]]

\* the error notifications of the dashboard, and one for a task not found
DashboardErrors == { "Failed to update task status. Please try again.",
                     "Failed to delete task. Please try again.",
                     "Task not found." }

\* C4: a delete of an id the collection does not hold fails with a not-found
\* error shown to the user - it is no silent no-op - and leaves the collection
\* as it was.
C4_DeleteOfMissingTaskReportsError ==
    [][\A t \in Tabs, confirmed, quota \in BOOLEAN :
          \A id \in rendered[t] :
             (~Holds(t, id) /\ deleteTask(t, id, confirmed, quota))
                => /\ lsTasks' = lsTasks
                   /\ dashboardState'[t].tasks = dashboardState[t].tasks
                   /\ message'[t] \in DashboardErrors]_vars

\* C5: when toggleTaskStatus or deleteTask raises an error - the write to the
\* store throws - the tab's in-memory lists, and the status and updatedAt of
\* every task in them, are what they were before the operation.
C5_FailureLeavesMemoryUntouched ==
    [][\A t \in Tabs :
          \A id \in rendered[t] :
             (Holds(t, id) /\ (toggleTaskStatus(t, id, TRUE) \/ deleteTask(t, id, TRUE, TRUE)))
                => /\ heap'[t] = heap[t]
                   /\ dashboardState'[t].tasks = dashboardState[t].tasks
                   /\ dashboardState'[t].filteredTasks = dashboardState[t].filteredTasks]_vars

\* a toggle or a confirmed delete of tab t on a task it holds, whose write succeeds
Persists(t, taskId) ==
    /\ Holds(t, taskId)
    /\ toggleTaskStatus(t, taskId, FALSE) \/ deleteTask(t, taskId, TRUE, FALSE)

\* C6: when dashboard tabs persist in turn, the last writer wins: after each
\* persist the store is the writing tab's in-memory collection, whatever the
\* store held before; the tab reports success, not a conflict, and the other
\* tabs learn nothing.
C6_LastWriterWins ==
    [][\A t \in Tabs :
          \A id \in rendered[t] :
             Persists(t, id)
                => /\ lsTasks' = InMemory(t)'
                   /\ message'[t] \in { "marked as completed!", "reopened for work.",
                                        "has been deleted." }
                   /\ \A u \in Tabs \ {t} :
                         /\ heap'[u] = heap[u]
                         /\ dashboardState'[u] = dashboardState[u]
                         /\ message'[u] = message[u]]_vars

\* C6: tab A completed a task and persisted it; tab B, which had loaded before,
\* then persisted a toggle of its own: the store is B's collection, in which
\* A's task is as it was seeded
C6_Witness ==
    /\ console["A"] = "Task marked" /\ console["B"] = "Task marked"
    /\ lsTasks = InMemory("B")
    /\ \E i \in 1..Len(InMemory("A")), j \in 1..Len(lsTasks) :
          /\ lsTasks[j].id = InMemory("A")[i].id
          /\ InMemory("A")[i].status = "Completed"
          /\ InMemory("A")[i].updatedAt = now
          /\ lsTasks[j].status # "Completed"
          /\ lsTasks[j].updatedAt < now

\* C7: every mutation invalidates the statistics cache: when a toggle or a
\* delete completes, the statistics shown are calculateTaskStatistics of the
\* tab's tasks as they now are, also within the cache duration.
C7_StatisticsFollowMutations ==
    [][\A t \in Tabs :
          \A id \in rendered[t] :
             Persists(t, id)
                => shownStats'[t] = calculateTaskStatistics(InMemory(t)', now)]_vars

\* ------------------------------------------------------------------------
\* Properties of sessions and of the login
\* ------------------------------------------------------------------------
GatedPages == Pages \ {"index"}

\* the stored session parses, carries an expiry, and the expiry is later than
\* the clock
SessionValid(session, clock) ==
    /\ session # Null
    /\ ~Has(session, "corrupt")
    /\ Has(session, "expires")
    /\ clock < session.expires

\* the page tab t is loading gets through its gate
PassesGate(t) ==
    /\ page[t] \in GatedPages /\ phase[t] = "loading"
    /\ page'[t] = page[t] /\ phase'[t] = "ready"

\* C8: a page of the application - dashboard, tasks, create-task, profile -
\* gets through its authentication gate only if the store holds a session whose
\* expiry is in the future.
C8_GateNeedsUnexpiredSession ==
    [][\A t \in Tabs : PassesGate(t) => SessionValid(lsSession, now)]_vars

\* C9: the session check of the login page (checkExistingSession) and of the
\* dashboard (verifyUserAuthentication) takes the stored session as valid
\* exactly when its expiry is later than now; a session that is expired, does
\* not parse or lacks an expiry counts as no session and its key is removed.
C9_SessionValidIffUnexpired ==
    [][\A t \in Tabs :
          /\ LoadIndex(t)
                => /\ (timer'[t] = "toDashboard") <=> SessionValid(lsSession, now)
                   /\ lsSession' = IF SessionValid(lsSession, now) THEN lsSession ELSE Null
          /\ (\E rs \in SampleRandoms, quota \in BOOLEAN : LoadDashboard(t, rs, quota))
                => /\ (page'[t] = "dashboard") <=> SessionValid(lsSession, now)
                   /\ lsSession' = IF SessionValid(lsSession, now) THEN lsSession ELSE Null]_vars

\* C10: a login that fails gives the same result - success false and the same
\* message, character for character - whether the email belongs to an account
\* and the password is wrong or the email is unknown; the message shown is that
\* one, no session is written and no redirect is scheduled.
C10_LoginFailuresAreAlike ==
    [][\A t \in Tabs, e \in LoginEmails, p \in LoginPasswords :
          LET formData == getLoginFormData(e, p)
              result == authenticateUser(formData.email, formData.password)
          IN  (handleLoginSubmit(t, e, p) /\ validateLoginForm(formData) /\ ~result.success)
                 => /\ \A e2 \in LoginEmails, p2 \in LoginPasswords :
                          LET other == authenticateUser(getLoginFormData(e2, p2).email,
                                                        getLoginFormData(e2, p2).password)
                          IN  ~other.success => other = result
                    /\ message'[t] = result.error
                    /\ lsSession' = lsSession
                    /\ timer'[t] = timer[t]]_vars

\* C10: the last submit of some tab named an account's email with a wrong
\* password and was rejected, and the store holds no session
C10_Witness ==
    \E t \in Tabs :
       /\ page[t] = "index" /\ console[t] = "Login failed"
       /\ \E i \in 1..Len(DEMO_USERS) :
             DEMO_USERS[i].email = getLoginFormData(loginEmail[t], "").email
       /\ message[t] = InvalidCredentials
       /\ lsSession = Null


\* ------------------------------------------------------------------------
\* Properties of the registration
\* ------------------------------------------------------------------------
StoredEmails == {lsUsers[i].email : i \in 1..Len(lsUsers)}

\* the stored collection is only ever extended
UsersOnlyAppended ==
    /\ Len(lsUsers') >= Len(lsUsers)
    /\ SubSeq(lsUsers', 1, Len(lsUsers)) = lsUsers

\* C11: a registration whose typed email, trimmed and lower-cased, is the
\* email of a stored user, fails at its existence check with the 'already
\* registered' error, appends nothing to the users collection and creates no
\* session; and a stored user stays stored, so an email registered when the
\* form is submitted is still registered when the check runs.
C11_RegisteredEmailIsRefused ==
    [][ /\ UsersOnlyAppended
        /\ \A t \in Tabs :
              ( /\ RegisterCheck(t)
                /\ ToLowerCase(Trim(registration[t].input.email)) \in StoredEmails )
              => /\ message'[t] = EmailExists
                 /\ registration'[t].pc = "idle"
                 /\ lsUsers' = lsUsers
                 /\ lsSession' = lsSession ]_vars

\* a registration typed with other letters and with spaces around was refused
C11_Witness ==
    \E t \in Tabs :
        /\ message[t] = EmailExists
        /\ registration[t].input.email = " Ana@Mail.com "
        /\ "ana@mail.com" \in StoredEmails
        /\ Len(lsUsers) = 1

\* C12: no two records of the stored users collection have the same email
C12_EmailsAreUnique ==
    \A i, j \in 1..Len(lsUsers) : lsUsers[i].email = lsUsers[j].email => i = j


\* ------------------------------------------------------------------------
\* Properties of the loading of tasks
\* ------------------------------------------------------------------------
\* the stored tasks, in their stored order, that name uid as owner or no owner
TasksOf(stored, uid) ==
    LET keep == [i \in 1..Len(stored) |->
                    ~("userId" \in DOMAIN stored[i]) \/ stored[i].userId = uid]
    IN  SelectIdx(stored, keep, 1)

\* C13: once the dashboard, the tasks page or the profile page has loaded the
\* tasks for the user of the session, the list in memory (the profile page's
\* statistics are computed from it) is exactly the stored tasks whose owner is
\* that user or that have no owner, and holds no task of another user.
C13_LoadedTasksAreTheUsers ==
    [][ \A t \in Tabs :
          LET mine == TasksOf(lsTasks', lsSession'.userId)
          IN  /\ ((\E rs \in SampleRandoms, quota \in BOOLEAN : LoadDashboard(t, rs, quota))
                    /\ phase'[t] = "ready")
                 => Stringify(heap'[t], dashboardState'[t].tasks) = mine
              /\ ((\E rs \in SampleRandoms, sts \in [1..MaxSampleTasks -> Statuses],
                      prs \in [1..MaxSampleTasks -> Priorities],
                      ages \in [1..MaxSampleTasks -> SampleAgeDays],
                      dues \in [1..MaxSampleTasks -> SampleDueDays], quota \in BOOLEAN :
                      LoadTasks(t, rs, sts, prs, ages, dues, quota))
                    /\ phase'[t] = "ready")
                 => Stringify(heap'[t], tasksState'[t].allTasks) = mine
              /\ (LoadProfile(t) /\ phase'[t] = "ready")
                 => /\ heap'[t] = mine
                    /\ shownStats'[t].totalTasks = Len(mine) ]_vars

\* a page was loaded over a collection holding a task of the user, a task of
\* another user and a task without owner
C13_Witness ==
    /\ phase["A"] = "ready" /\ page["A"] \in {"dashboard", "tasks", "profile"}
    /\ Len(lsTasks) = 3
    /\ \E i, j, k \in 1..3 :
          /\ Has(lsTasks[i], "userId") /\ lsTasks[i].userId = lsSession.userId
          /\ Has(lsTasks[j], "userId") /\ lsTasks[j].userId # lsSession.userId
          /\ ~Has(lsTasks[k], "userId")
    /\ Len(heap["A"]) \in {2, 3}


\* ------------------------------------------------------------------------
\* Properties of the dashboard's order
\* ------------------------------------------------------------------------
\* the tasks the dashboard of tab t sorts, in their input order
SortInput(t) == Stringify(heap[t], dashboardState[t].filteredTasks)

\* the place of the task with this id in the rendered rows
RowOf(t, id) == CHOOSE i \in 1..Len(rows[t]) : rows[t][i] = id

PriorityRank(task) ==
    CASE task.priority = "High" -> 1 [] task.priority = "Medium" -> 2 [] task.priority = "Low" -> 3

\* C14: in the list the dashboard renders, every Pending task precedes every
\* Completed task whatever their priorities; among tasks of equal status High
\* precedes Medium precedes Low; tasks the comparator calls equal keep their
\* input order; and [Completed/High, Pending/Low, Pending/High] is rendered
\* as [Pending/High, Pending/Low, Completed/High].
C14_SortedByRelevance ==
    (page["A"] = "dashboard" /\ phase["A"] = "ready") =>
        LET in == SortInput("A")
            n == Len(in)
        IN  /\ \A a, b \in 1..n :
                  (in[a].status = "Pending" /\ in[b].status = "Completed")
                  => RowOf("A", in[a].id) < RowOf("A", in[b].id)
            /\ \A a, b \in 1..n :
                  (in[a].status = in[b].status /\ PriorityRank(in[a]) < PriorityRank(in[b]))
                  => RowOf("A", in[a].id) < RowOf("A", in[b].id)
            /\ \A a, b \in 1..n :
                  (a < b /\ sortTasksByRelevance(in[a], in[b]) = 0)
                  => RowOf("A", in[a].id) < RowOf("A", in[b].id)
            /\ ( /\ n = 3
                 /\ in[1].status = "Completed" /\ in[1].priority = "High"
                 /\ in[2].status = "Pending" /\ in[2].priority = "Low"
                 /\ in[3].status = "Pending" /\ in[3].priority = "High" )
               => rows["A"] = << in[3].id, in[2].id, in[1].id >>


\* ------------------------------------------------------------------------
\* Properties of the tasks page's search, filters and pages
\* ------------------------------------------------------------------------
\* applyFiltersAndSorting runs in tab t with an empty search and no category
\* or priority filter
AppliesStatusOnly(t) ==
    /\ performSearch(t, "")
    /\ tasksState[t].activeFilters.category = "all"
    /\ tasksState[t].activeFilters.priority = "all"

\* the tasks of tab t's allTasks whose status equals S whatever the letter case
WithStatus(t, S) ==
    SelectIdx(tasksState[t].allTasks,
              [i \in 1..Len(tasksState[t].allTasks) |->
                  ToLowerCase(heap[t][tasksState[t].allTasks[i]].status) = ToLowerCase(S)], 1)

\* C15: with the status filter set to Pending, In Progress or Completed in
\* any letter case, applyFiltersAndSorting returns exactly the tasks whose
\* status equals the filter case-insensitively; with 'all' it returns every
\* task.
C15_StatusFilterSelectsExactly ==
    [][ AppliesStatusOnly("A") =>
          LET S == tasksState["A"].activeFilters.status
          IN  /\ S = "all" => tasksState'["A"].filteredTasks = tasksState["A"].allTasks
              /\ ToLowerCase(S) \in {ToLowerCase(status) : status \in Statuses}
                 => tasksState'["A"].filteredTasks = WithStatus("A", S) ]_vars

\* applyFiltersAndSorting runs in tab t
Applies(t) == \E searchTerm \in SearchTerms : performSearch(t, searchTerm)

\* the tasks applyFiltersAndSorting returned in tab t
Result(t) == Stringify(heap[t], tasksState[t].filteredTasks)

\* C16 as stated: with the category filter set to X, every task
\* applyFiltersAndSorting returns has category = X.
C16_ResultCategoryIsTheFilter ==
    [][ Applies("A") =>
          \A i \in 1..Len(Result("A")') :
              Result("A")'[i].category = tasksState["A"].activeFilters.category ]_vars

\* C16: with the category filter set to a value X other than 'all', every
\* task applyFiltersAndSorting returns has a category equal to X up to letter
\* case.
C16_ResultCategoryMatchesTheFilter ==
    [][ (Applies("A") /\ tasksState["A"].activeFilters.category # "all") =>
          \A i \in 1..Len(Result("A")') :
              ToLowerCase(Result("A")'[i].category)
                  = ToLowerCase(tasksState["A"].activeFilters.category) ]_vars

\* a category filter written in another letter case than the stored
\* categories was applied and returned tasks, out of tasks of other categories
C16_Witness ==
    /\ console["A"] # NoValue
    /\ tasksState["A"].activeFilters.category = "physics"
    /\ Len(tasksState["A"].filteredTasks) > 0
    /\ Len(tasksState["A"].filteredTasks) < Len(tasksState["A"].allTasks)

\* tab t has no category, priority or status filter
OnlySearches(t) ==
    /\ tasksState[t].activeFilters.category = "all"
    /\ tasksState[t].activeFilters.priority = "all"
    /\ tasksState[t].activeFilters.status = "all"

\* s is part of x, whatever the letter case
ContainsIgnoringCase(x, s) == Includes(ToLowerCase(x), ToLowerCase(s))

\* one of the searched fields of the task contains s
SomeFieldContains(task, s) ==
    \/ ContainsIgnoringCase(task.title, s)
    \/ Has(task, "description") /\ ContainsIgnoringCase(task.description, s)
    \/ ContainsIgnoringCase(task.category, s)
    \/ Has(task, "assignee") /\ ContainsIgnoringCase(task.assignee, s)
    \/ Has(task, "tags") /\ \E k \in 1..Len(task.tags) : ContainsIgnoringCase(task.tags[k], s)
    \/ ContainsIgnoringCase(task.id, s)
    \/ ContainsIgnoringCase(task.status, s)
    \/ ContainsIgnoringCase(task.priority, s)

\* the tasks tab t holds
AllTasks(t) == Stringify(heap[t], tasksState[t].allTasks)

InResult(t, task) == \E i \in 1..Len(Result(t)) : Result(t)[i] = task

\* C17 as stated: a search for s with no other filter returns no more tasks
\* than there are, returns every task whose title contains s
\* case-insensitively, and returns only tasks one of whose title, description,
\* category, assignee, tags, identifier, status or priority contains s.
C17_SearchMatchesTheTypedTerm ==
    [][ \A s \in SearchTerms :
          (performSearch("A", s) /\ OnlySearches("A")) =>
             /\ Len(Result("A")') =< Len(AllTasks("A"))
             /\ \A i \in 1..Len(AllTasks("A")) :
                   ContainsIgnoringCase(AllTasks("A")[i].title, s)
                   => InResult("A", AllTasks("A")[i])'
             /\ \A i \in 1..Len(Result("A")') :
                   SomeFieldContains(Result("A")'[i], s) ]_vars

\* C17: a search for s with no other filter returns no more tasks than there
\* are, returns every task whose title contains s case-insensitively, and
\* returns only tasks one of whose title, description, category, assignee,
\* tags, identifier, status or priority contains s without its leading and
\* trailing white space.
C17_SearchMatchesTheTrimmedTerm ==
    [][ \A s \in SearchTerms :
          (performSearch("A", s) /\ OnlySearches("A")) =>
             /\ Len(Result("A")') =< Len(AllTasks("A"))
             /\ \A i \in 1..Len(AllTasks("A")) :
                   ContainsIgnoringCase(AllTasks("A")[i].title, s)
                   => InResult("A", AllTasks("A")[i])'
             /\ \A i \in 1..Len(Result("A")') :
                   SomeFieldContains(Result("A")'[i], Trim(s)) ]_vars

\* a search found some of the tasks by their title and left others out
C17_Witness ==
    /\ OnlySearches("A")
    /\ tasksState["A"].activeFilters.search = "lab"
    /\ Len(tasksState["A"].filteredTasks) > 1
    /\ Len(tasksState["A"].filteredTasks) < Len(tasksState["A"].allTasks)
    /\ \E i \in 1..Len(Result("A")) : Result("A")[i].title = "LAB safety quiz"

\* ceil(total / size)
PagesOf(total, size) == (total + size - 1) \div size

\* tab t renders exactly the slice [(page-1)*size, page*size) of its filtered
\* list
RendersThePage(t) ==
    LET ts == tasksState[t]
        first == (ts.currentPage - 1) * ts.tasksPerPage + 1
        last == Min(ts.currentPage * ts.tasksPerPage, Len(ts.filteredTasks))
    IN  /\ Len(rows[t]) = Max(last - first + 1, 0)
        /\ \A i \in 1..Len(rows[t]) : rows[t][i] = Result(t)[first + i - 1].id

\* C18 as stated: after a filter or search change the page number lies in
\* [1, ceil(total/size)] for total filtered tasks, and the rendered tasks are
\* the slice [(page-1)*size, page*size) of the filtered list.
C18_PageWithinThePages ==
    [][ Applies("A") =>
          LET ts == tasksState'["A"]
          IN  /\ 1 =< ts.currentPage
              /\ ts.currentPage =< PagesOf(Len(ts.filteredTasks), ts.tasksPerPage)
              /\ RendersThePage("A")' ]_vars

\* C18: after a filter or search change the page number lies in
\* [1, max(1, ceil(total/size))] for total filtered tasks, and the rendered
\* tasks are the slice [(page-1)*size, page*size) of the filtered list.
C18_PageWithinThePagesOrFirst ==
    [][ Applies("A") =>
          LET ts == tasksState'["A"]
          IN  /\ 1 =< ts.currentPage
              /\ ts.currentPage =< Max(1, PagesOf(Len(ts.filteredTasks), ts.tasksPerPage))
              /\ RendersThePage("A")' ]_vars

\* a search left the page on the second and last page, which shows the tasks
\* after the first ten
C18_Witness ==
    /\ console["A"] # NoValue
    /\ tasksState["A"].currentPage = 2
    /\ tasksState["A"].totalPages = 2
    /\ Len(tasksState["A"].filteredTasks) = 12
    /\ rows["A"] = << "task_11", "task_12" >>


\* ------------------------------------------------------------------------
\* Properties of the statistics
\* ------------------------------------------------------------------------
\* the dashboard of tab t, and its profile page, show statistics.  The
\* dashboard's may be those of its cache, computed from the tasks of an earlier
\* load; the properties below are about the statistics of the tasks the page
\* holds.
DashboardShown(t) == page[t] = "dashboard" /\ phase[t] = "ready" /\ shownStats[t] # Null
ProfileShown(t) == page[t] = "profile" /\ phase[t] = "ready" /\ shownStats[t] # Null

CompletedIn(tasks) == Cardinality({i \in 1..Len(tasks) : tasks[i].status = "Completed"})

\* rate is the integer nearest to completed / total * 100 (the greater one of
\* two equally near) for a set of tasks, and 0 for none
IsCompletionRate(rate, tasks) ==
    LET completed == CompletedIn(tasks)
        total == Len(tasks)
    IN  /\ rate \in 0..100
        /\ total = 0 => rate = 0
        /\ total > 0 => /\ (2 * rate - 1) * total =< 200 * completed
                        /\ 200 * completed < (2 * rate + 1) * total
        /\ (completed = 1 /\ total = 3) => rate = 33

CreatedInPriorWeek(tasks) ==
    {i \in 1..Len(tasks) : /\ Has(tasks[i], "createdAt")
                           /\ tasks[i].createdAt >= now - 14 * 1440
                           /\ tasks[i].createdAt < now - 7 * 1440}

\* C20: for the empty task set every count of the statistics (total,
\* completed, pending, in progress, overdue, completed this week, high
\* priority) is 0, the completion rate is 0 and weeklyTrend is 0; and
\* weeklyTrend is 0 whenever no task was created in the prior 7-day window.
C20_EmptySetGivesZeros ==
    /\ (DashboardShown("A") /\ Len(InMemory("A")) = 0) =>
          LET stats == calculateTaskStatistics(InMemory("A"), now)
          IN  /\ stats.total = 0 /\ stats.completed = 0 /\ stats.pending = 0
              /\ stats.inProgress = 0 /\ stats.overdue = 0 /\ stats.completedThisWeek = 0
              /\ stats.highPriority = 0 /\ stats.overallProgress = 0 /\ stats.weeklyTrend = 0
    /\ (DashboardShown("A") /\ CreatedInPriorWeek(InMemory("A")) = {}) =>
          calculateTaskStatistics(InMemory("A"), now).weeklyTrend = 0
    /\ (ProfileShown("A") /\ Len(heap["A"]) = 0) =>
          LET stats == shownStats["A"]
          IN  /\ stats = calculateDetailedStatistics(heap["A"], now)
              /\ stats.totalTasks = 0 /\ stats.completedTasks = 0 /\ stats.pendingTasks = 0
              /\ stats.inProgressTasks = 0 /\ stats.overdueTasks = 0
              /\ stats.completionRate = 0

\* the dashboard shows the statistics of tasks of which some were completed
\* this week and none was created in the week before
C20_Witness ==
    /\ DashboardShown("A")
    /\ CreatedInPriorWeek(InMemory("A")) = {}
    /\ shownStats["A"] = calculateTaskStatistics(InMemory("A"), now)
    /\ shownStats["A"].completedThisWeek > 0
    /\ shownStats["A"].weeklyTrend = 0


\* ------------------------------------------------------------------------
\* Properties of the overdue count and of the counts by period
\* ------------------------------------------------------------------------
\* the calendar day of an instant
DayOf(instant) == instant \div 1440

\* the task is not Completed and is due on a day before the clock's day
DueBeforeToday(task) ==
    /\ task.status # "Completed"
    /\ Has(task, "dueDate")
    /\ DayOf(task.dueDate) < DayOf(now)

DueBeforeTodayIn(tasks) == Cardinality({i \in 1..Len(tasks) : DueBeforeToday(tasks[i])})

TasksShown(t) == page[t] = "tasks" /\ phase[t] = "ready"

\* C21: the overdue count of the statistics, and the overdue mark of the
\* tasks page, count the tasks that are not Completed, have a due date, and
\* are due on a calendar day before the current one; a task due today is not
\* overdue at any time of the day.
C21_OverdueComparesDays ==
    /\ DashboardShown("A") =>
          calculateTaskStatistics(InMemory("A"), now).overdue = DueBeforeTodayIn(InMemory("A"))
    /\ ProfileShown("A") =>
          calculateDetailedStatistics(heap["A"], now).overdueTasks = DueBeforeTodayIn(heap["A"])
    /\ TasksShown("A") =>
          \A i \in 1..Len(heap["A"]) :
              isTaskOverdue(heap["A"][i], now) <=> DueBeforeToday(heap["A"][i])

\* how many of the tasks were created in [now - days, now)
CreatedWithin(tasks, days) ==
    Cardinality({i \in 1..Len(tasks) : /\ Has(tasks[i], "createdAt")
                                       /\ now - days * 1440 =< tasks[i].createdAt
                                       /\ tasks[i].createdAt < now})

\* C22: tasksLast7Days and tasksLast30Days count exactly the tasks created at
\* a time t with now - N days <= t < now, for N = 7 and N = 30; a task
\* created exactly N days before now is counted.
C22_PeriodsIncludeTheirStart ==
    ProfileShown("A") =>
        LET stats == calculateDetailedStatistics(heap["A"], now)
        IN  /\ stats.tasksLast7Days = CreatedWithin(heap["A"], 7)
            /\ stats.tasksLast30Days = CreatedWithin(heap["A"], 30)


\* ------------------------------------------------------------------------
\* Properties of the drafts
\* ------------------------------------------------------------------------
\* the auto-save interval of tab t runs
AutoSaveRuns(t) == \E fd \in FormInputs, quota \in BOOLEAN : autoSaveTick(t, fd, quota)

\* C23: a run of the auto-save timer writes the draft only if the form
\* changed since the previous run - after one auto-save, a run with no form
\* input in between writes nothing - and the timer is cleared when the view
\* is left.
C23_AutoSaveOnlyAfterChange ==
    /\ [](autoSaveTimer["A"] => (page["A"] = "create-task" /\ phase["A"] = "ready"))
    /\ [][ (AutoSaveRuns("A") /\ draftLog["A"].autoSaved /\ ~draftLog["A"].inputSince)
           => (lsDrafts' = lsDrafts /\ draftLog'["A"].writes = draftLog["A"].writes) ]_vars


\* a save of the form has succeeded and its redirect has not happened yet
SavedNotYetRedirected(t) ==
    page[t] = "create-task" /\ phase[t] = "ready" /\ timer[t] = "toTasks"

\* C28: from a successful saveTask until the page redirects, the draft key of
\* the form ('crudzaso_new_task_draft', or 'crudzaso_task_draft_<id>' when
\* editing) is absent from the store, whatever auto-save ticks fire meanwhile.
C28_NoDraftAfterSave ==
    SavedNotYetRedirected("A") => draftKey(taskFormState["A"]) \notin DOMAIN lsDrafts

\* ------------------------------------------------------------------------
\* Properties of the creation of tasks
\* ------------------------------------------------------------------------
\* no two tasks of the collection have the same id
UniqueIds(tasks) == \A i, j \in 1..Len(tasks) : tasks[i].id = tasks[j].id => i = j

\* the form of tab t, creating, is saved without a title or without a category
SavesIncomplete(t) ==
    \E fd \in FormInputs, r \in RandomSuffixes :
        /\ ~taskFormState[t].isEditing
        /\ fd.title = "" \/ fd.category = ""
        /\ saveTask(t, fd, r, FALSE)

\* C24: after any sequence of creations of tasks (saveTask creating, the
\* seeding of the demonstration tasks) no two stored tasks have the same id,
\* and a creation whose title or category is missing is rejected and adds
\* nothing to the store.
C24_CreatedIdsAreUnique ==
    /\ [] UniqueIds(lsTasks)
    /\ [][SavesIncomplete("A") => lsTasks' = lsTasks]_vars

\* ------------------------------------------------------------------------
\* Properties of the dashboard's writes and of its filter
\* ------------------------------------------------------------------------
\* tab t toggles or deletes one of the tasks its dashboard lists
MutatesOnDashboard(t) ==
    \E id \in rendered[t], confirmed, quota \in BOOLEAN :
        toggleTaskStatus(t, id, quota) \/ deleteTask(t, id, confirmed, quota)

\* the stored task names an owner who is not the user
OwnedByAnother(task, user) == Has(task, "userId") /\ task.userId # user.id

\* C25: a toggleTaskStatus or a deleteTask on the dashboard of user U leaves
\* every stored task that another user owns in the store and unchanged.
C25_OthersTasksSurvive ==
    [][MutatesOnDashboard("A") =>
          \A i \in 1..Len(lsTasks) :
              OwnedByAnother(lsTasks[i], dashboardState["A"].currentUser) =>
                  \E j \in 1..Len(lsTasks') : lsTasks'[j] = lsTasks[i]]_vars

\* the status a filter selects, if it selects one
StatusOfFilter(filterType) ==
    CASE filterType = "pending" -> {"Pending"}
      [] filterType = "completed" -> {"Completed"}
      [] filterType = "in-progress" -> {"In Progress"}
      [] OTHER -> Statuses

\* the tasks in memory that the filter selects, in their order
Selected(t) ==
    LET tasks == InMemory(t)
    IN  SelectIdx(tasks, [i \in 1..Len(tasks) |->
                             tasks[i].status \in StatusOfFilter(dashboardState[t].currentFilter)], 1)

\* the filtered tasks as JSON.stringify(dashboardState.filteredTasks) gives them
FilteredInMemory(t) ==
    [i \in 1..Len(dashboardState[t].filteredTasks) |->
        heap[t][dashboardState[t].filteredTasks[i]]]

\* C26: on the dashboard, filteredTasks is exactly the tasks in memory that
\* currentFilter selects ('pending' the Pending ones, 'completed' the
\* Completed ones, 'in-progress' the In Progress ones, any other value all),
\* after any sequence of filterTasks, toggleTaskStatus, deleteTask and
\* refreshDashboard.
C26_FilteredIsTheSelection ==
    (page["A"] = "dashboard" /\ phase["A"] = "ready") => FilteredInMemory("A") = Selected("A")

\* ------------------------------------------------------------------------
\* Properties of the login of registered users
\* ------------------------------------------------------------------------
\* the login with the email and the password of a stored user succeeds as
\* that user
CanLogIn(user) ==
    LET authResult == authenticateUser(user.email, user.password)
    IN  authResult.success /\ authResult.user.id = user.id /\ authResult.user.email = user.email

\* C27: after a registration with email e and password p has succeeded, a
\* later authenticateUser(e, p) succeeds and yields the registered user.
C27_RegisteredUserCanLogIn == \A i \in 1..Len(lsUsers) : CanLogIn(lsUsers[i])

\* ------------------------------------------------------------------------
\* Properties of the deletes
\* ------------------------------------------------------------------------
\* the dashboard of tab t refreshes (Ctrl+R, or a run of the auto-refresh)
Refreshes(t) == \E rs \in SampleRandoms, quota \in BOOLEAN : refreshDashboard(t, rs, quota)

\* the ids of the tasks of a collection
IdsOf(tasks) == {tasks[i].id : i \in 1..Len(tasks)}

\* C29: a delete is durable: a refreshDashboard that follows deletes on the
\* dashboard, manual or of the 30-second auto-refresh, adds no task to the
\* collection, stored or in memory, and after the delete of the last task the
\* collection stays empty.
C29_RefreshAddsNoTask ==
    [][Refreshes("A") =>
          /\ IdsOf(lsTasks') \subseteq IdsOf(lsTasks)
          /\ IdsOf(InMemory("A")') \subseteq IdsOf(lsTasks)]_vars

\* ------------------------------------------------------------------------
\* Properties of the statistics by category
\* ------------------------------------------------------------------------
\* the tasks of the category all have one of the three statuses
HasKnownStatuses(tasks, c) ==
    \A i \in 1..Len(tasks) : CategoryOf(tasks[i]) = c => tasks[i].status \in Statuses

\* how many tasks of the category have the status
InCategory(tasks, c, status) ==
    Cardinality({i \in 1..Len(tasks) : CategoryOf(tasks[i]) = c /\ tasks[i].status = status})

\* C30: in the breakdown by category of calculateCategoryStatistics, for every
\* category whose tasks all are Pending, In Progress or Completed, total =
\* completed + pending + inProgress, each of the three counters is the number
\* of the category's tasks of that status, and every counter is a
\* non-negative integer.
C30_CategoryCountsAddUp ==
    ProfileShown("A") =>
        LET tasks == heap["A"]
            categoryData == calculateCategoryStatistics(tasks)
        IN  \A c \in DOMAIN categoryData :
                HasKnownStatuses(tasks, c) =>
                    /\ categoryData[c].total =
                           categoryData[c].completed + categoryData[c].pending
                               + categoryData[c].inProgress
                    /\ categoryData[c].completed = InCategory(tasks, c, "Completed")
                    /\ categoryData[c].pending = InCategory(tasks, c, "Pending")
                    /\ categoryData[c].inProgress = InCategory(tasks, c, "In Progress")
                    /\ \A k \in {"total", "completed", "pending", "inProgress"} :
                           categoryData[c][k] \in Nat

=============================================================================
